---- MODULE Spec2Model ----
(***************************************************************************)
(* A model of the Lab4 search engine: the storage tables (database.py),    *)
(* the two PageRank engines (pagerank_mapreduce.py, pagerank_pregel.py),   *)
(* the text helpers (utils.py), the indexing path (parser.py) and the      *)
(* query engine (search_engine.py).                                        *)
(*                                                                         *)
(* The floats of the PageRank engines are modelled as non-negative         *)
(* fixed-point numbers with sixteen decimal places: the record [hi, lo]    *)
(* stands for (hi * BASE + lo) * 10^-16 with 0 <= lo < BASE = 10^8.  Every *)
(* division truncates.  TLC's integers are 32 bits wide, hence the two     *)
(* limbs.  The scores of the query engine, which may be negative, are      *)
(* signed fixed-point numbers with six decimal places.                     *)
(***************************************************************************)
EXTENDS Integers, Sequences, FiniteSets, TLC

VARIABLES
    documents,      \* table documents: id (1..n) -> [url, title, content]
    links,          \* table links: set of [source_doc_id, target_url, target_doc_id]
    pagerank,       \* table pagerank: doc_id -> [pagerank, iteration]
    words,          \* table words: id (1..n) -> [word, frequency]
    inverted_index, \* table inverted_index: set of [word_id, doc_id, tf, positions]
    mr,             \* the PageRankMapReduce instance and its calculate() frame
    pg,             \* the PageRankPregel instance and its calculate() frame
    se,             \* the SearchEngine instance
    indexed,        \* the number of index_document calls made so far
    wp,             \* the WebParser instance, its crawl() frame and the requests it sent
    call,           \* the last call made from outside: its name and arguments
    ret             \* what that call returned

vars == <<documents, links, pagerank, words, inverted_index, mr, pg, se,
          indexed, wp, call, ret>>

\* what the PageRank engines never touch
searchVars == <<words, inverted_index, se, indexed, wp, call, ret>>

----------------------------------------------------------------------------
(* Bounds of the model *)

MaxDocs == 3
MaxLinks == 2

\* the longest text given to tokenize on its own
MaxTextLen == 4

\* the URLs index_document is called with
MaxUrls == 2

\* the number of index_document calls of a run
MaxIndexCalls == 2

\* the documents of the corpus that fills more than one page of results
PageDocs == 11

\* the calls of calculate() on one instance of an engine
MaxCalculateCalls == 2

\* the calls of crawl() on one WebParser
MaxCrawlCalls == 2

----------------------------------------------------------------------------
(* Fixed-point arithmetic standing for Python's float *)

BASE == 10000 * 10000

Fx(h, l) == [hi |-> h, lo |-> l]

FZero == Fx(0, 0)

FOne == Fx(BASE, 0)

FAdd(a, b) ==
    LET l == a.lo + b.lo
    IN  Fx(a.hi + b.hi + (l \div BASE), l % BASE)

FLess(a, b) == a.hi < b.hi \/ (a.hi = b.hi /\ a.lo < b.lo)

FLeq(a, b) == ~FLess(b, a)

\* a - b for a >= b
FSub(a, b) ==
    IF a.lo >= b.lo THEN Fx(a.hi - b.hi, a.lo - b.lo)
                    ELSE Fx(a.hi - b.hi - 1, a.lo + BASE - b.lo)

\* abs(a - b)
FAbsDiff(a, b) == IF FLess(a, b) THEN FSub(b, a) ELSE FSub(a, b)

\* a * k for a small natural k
FMul(a, k) ==
    LET l == a.lo * k
    IN  Fx(a.hi * k + (l \div BASE), l % BASE)

\* a / k for a small positive natural k (truncated)
FDiv(a, k) ==
    LET r == a.hi % k
    IN  Fx(a.hi \div k, (r * BASE + a.lo) \div k)

RECURSIVE FSum(_, _)
\* sum(f[x] for x in S)
FSum(f, S) ==
    IF S = {} THEN FZero
    ELSE LET x == CHOOSE y \in S : TRUE
         IN  FAdd(f[x], FSum(f, S \ {x}))

----------------------------------------------------------------------------
(* config.py *)

\* PAGERANK_CONFIG['damping_factor'] = 0.85 = 17/20, applied to a number
damping_factor(x) == FDiv(FMul(x, 17), 20)

\* PAGERANK_CONFIG['max_iterations']
max_iterations == 100

\* PAGERANK_CONFIG['tolerance'] = 1e-6
tolerance == Fx(100, 0)

\* SEARCH_CONFIG
results_per_page == 10

snippet_length == 150

----------------------------------------------------------------------------
(* database.py *)

\* SQL NULL / Python None for a document id (ids start at 1; both are falsy)
NULL == 0

Url(i) == <<"u", i>>

\* get_all_documents: the ids, in rowid order
doc_ids_of(docs) == [i \in 1..Len(docs) |-> i]

\* get_outgoing_links(doc_id): rows (target_doc_id, target_url)
get_outgoing_links(lnk, doc_id) == {l \in lnk : l.source_doc_id = doc_id}

\* update_pagerank as INSERT OR IGNORE: a stored row is never replaced
update_pagerank_ignoring(table, ranks, iteration) ==
    [d \in (DOMAIN table) \cup (DOMAIN ranks) |->
        IF d \in DOMAIN table
        THEN table[d]
        ELSE [pagerank |-> ranks[d], iteration |-> iteration]]

\* update_pagerank for every (doc_id, rank) of a vector: INSERT OR REPLACE
update_pagerank(table, ranks, iteration) ==
    [d \in (DOMAIN table) \cup (DOMAIN ranks) |->
        IF d \in DOMAIN ranks
        THEN [pagerank |-> ranks[d], iteration |-> iteration]
        ELSE table[d]]

Range(s) == {s[i] : i \in DOMAIN s}

----------------------------------------------------------------------------
(* utils.py: text is a sequence of characters, a character a string.       *)

LowerLetters ==
    <<"a", "b", "c", "d", "e", "f", "g", "h", "i", "j", "k", "l", "m", "n",
      "o", "p", "q", "r", "s", "t", "u", "v", "w", "x", "y", "z">>

UpperLetters ==
    <<"A", "B", "C", "D", "E", "F", "G", "H", "I", "J", "K", "L", "M", "N",
      "O", "P", "Q", "R", "S", "T", "U", "V", "W", "X", "Y", "Z">>

\* LATIN CAPITAL LETTER I WITH DOT ABOVE and COMBINING DOT ABOVE: the former
\* is a letter whose str.lower() is "i" followed by the latter, which is
\* neither a word character nor white space
CapitalIDot == "U+0130"

CombiningDot == "U+0307"

\* the characters \w matches
WordChars ==
    Range(LowerLetters) \cup Range(UpperLetters) \cup {CapitalIDot}
    \cup {"0", "1", "2", "3", "4", "5", "6", "7", "8", "9", "_"}

\* the characters \s matches and str.split / str.strip take as white space
SpaceChars == {" ", "\t", "\n"}

\* str.lower of one character
LowerChar(c) ==
    IF c \in Range(UpperLetters)
    THEN <<LowerLetters[CHOOSE i \in DOMAIN UpperLetters : UpperLetters[i] = c]>>
    ELSE IF c = CapitalIDot THEN <<"i", CombiningDot>>
    ELSE <<c>>

RECURSIVE Lower(_)
\* str.lower: character by character (the text is halved to keep the
\* evaluation shallow)
Lower(text) ==
    IF text = <<>> THEN <<>>
    ELSE IF Len(text) = 1 THEN LowerChar(text[1])
    ELSE LET half == Len(text) \div 2
         IN  Lower(SubSeq(text, 1, half)) \o Lower(SubSeq(text, half + 1, Len(text)))

\* the index of the first ">" after position i, 0 if there is none
NextGt(text, i) ==
    IF \E j \in (i + 1)..Len(text) : text[j] = ">"
    THEN CHOOSE j \in (i + 1)..Len(text) :
            text[j] = ">" /\ \A k \in (i + 1)..(j - 1) : text[k] # ">"
    ELSE 0

RECURSIVE SubTagsFrom(_, _)
\* re.sub(r'<[^>]+>', ' ', text), from position i on
SubTagsFrom(text, i) ==
    IF i > Len(text) THEN <<>>
    ELSE IF text[i] = "<" /\ NextGt(text, i) > i + 1
         THEN <<" ">> \o SubTagsFrom(text, NextGt(text, i) + 1)
         ELSE <<text[i]>> \o SubTagsFrom(text, i + 1)

\* re.sub(r'[^\w\s]', ' ', text)
SubNonWord(text) ==
    [i \in DOMAIN text |->
        IF text[i] \in WordChars \cup SpaceChars THEN text[i] ELSE " "]

RECURSIVE SubSpaces(_)
\* re.sub(r'\s+', ' ', text)
SubSpaces(text) ==
    IF text = <<>> THEN <<>>
    ELSE IF Head(text) \in SpaceChars
         THEN IF Len(text) > 1 /\ text[2] \in SpaceChars
              THEN SubSpaces(Tail(text))
              ELSE <<" ">> \o SubSpaces(Tail(text))
         ELSE <<Head(text)>> \o SubSpaces(Tail(text))

RECURSIVE LStrip(_)
LStrip(text) ==
    IF text # <<>> /\ Head(text) \in SpaceChars THEN LStrip(Tail(text)) ELSE text

RECURSIVE RStrip(_)
RStrip(text) ==
    IF text # <<>> /\ text[Len(text)] \in SpaceChars
    THEN RStrip(SubSeq(text, 1, Len(text) - 1))
    ELSE text

\* str.strip
Strip(text) == RStrip(LStrip(text))

\* clean_text
clean_text(text) == Lower(Strip(SubSpaces(SubNonWord(SubTagsFrom(text, 1)))))

RECURSIVE SplitFrom(_, _, _)
\* str.split(): the maximal runs of characters that are not white space;
\* word is the run read so far
SplitFrom(text, i, word) ==
    IF i > Len(text) THEN (IF word = <<>> THEN <<>> ELSE <<word>>)
    ELSE IF text[i] \in SpaceChars
         THEN (IF word = <<>> THEN <<>> ELSE <<word>>) \o SplitFrom(text, i + 1, <<>>)
         ELSE SplitFrom(text, i + 1, Append(word, text[i]))

Split(text) == SplitFrom(text, 1, <<>>)

\* [token for token in tokens if token not in stop_words]
DropStopWords(tokens, stop_words) == SelectSeq(tokens, LAMBDA t : t \notin stop_words)

\* tokenize without its last step
tokenize_keeping_stop_words(text, stop_words) == Split(clean_text(text))

\* tokenize
tokenize(text, stop_words) == DropStopWords(Split(clean_text(text)), stop_words)

RECURSIVE Join(_)
\* ' '.join(tokens)
Join(tokens) ==
    IF tokens = <<>> THEN <<>>
    ELSE IF Len(tokens) = 1 THEN tokens[1]
    ELSE tokens[1] \o <<" ">> \o Join(Tail(tokens))

Max(a, b) == IF a >= b THEN a ELSE b

Min(a, b) == IF a <= b THEN a ELSE b

\* "..."
Ellipsis == <<".", ".", ".">>

\* s.find(t, pos) == pos, with pos counted from 0
OccursAt(s, t, pos) ==
    pos + Len(t) <= Len(s) /\ SubSeq(s, pos + 1, pos + Len(t)) = t

\* the list positions of generate_snippet, as a set: every (pos, pos + len(term))
\* with pos a place where term.lower() occurs in text.lower()
snippet_positions(text, query_terms) ==
    LET lowered == Lower(text)
    IN  UNION {{<<pos, pos + Len(query_terms[k])>> :
                    pos \in {q \in 0..Len(lowered) :
                                OccursAt(lowered, Lower(query_terms[k]), q)}} :
               k \in DOMAIN query_terms}

\* generate_snippet; text[start:end] is cut from text itself, at the places
\* found in text.lower()
generate_snippet(text, query_terms, max_length) ==
    IF text = <<>> THEN <<>>
    ELSE LET positions == snippet_positions(text, query_terms)
         IN  IF positions = {}
             THEN IF Len(text) > max_length
                  THEN SubSeq(text, 1, max_length) \o Ellipsis
                  ELSE text
             ELSE LET first_pos == CHOOSE p \in {q[1] : q \in positions} :
                                      \A q \in positions : p <= q[1]
                      start == Max(0, first_pos - (max_length \div 2))
                      end   == Min(Len(text), start + max_length)
                      snippet == SubSeq(text, start + 1, end)
                  IN  (IF start > 0 THEN Ellipsis ELSE <<>>)
                      \o snippet
                      \o (IF end < Len(text) THEN Ellipsis ELSE <<>>)

\* config.STOP_WORDS
STOP_WORDS ==
    {<<"a">>, <<"a", "m">>, <<"a", "n">>, <<"a", "n", "d">>,
     <<"a", "r", "e">>, <<"a", "t">>, <<"b", "e">>, <<"b", "e", "e", "n">>,
     <<"b", "e", "i", "n", "g">>, <<"b", "u", "t">>, <<"b", "y">>,
     <<"c", "a", "n">>, <<"c", "o", "u", "l", "d">>, <<"d", "i", "d">>,
     <<"d", "o">>, <<"d", "o", "e", "s">>, <<"f", "o", "r">>,
     <<"h", "a", "d">>, <<"h", "a", "s">>, <<"h", "a", "v", "e">>,
     <<"h", "e">>, <<"h", "e", "r">>, <<"h", "i", "m">>, <<"i">>,
     <<"i", "n">>, <<"i", "s">>, <<"i", "t">>, <<"m", "a", "y">>,
     <<"m", "e">>, <<"m", "i", "g", "h", "t">>, <<"m", "u", "s", "t">>,
     <<"o", "f">>, <<"o", "n">>, <<"o", "r">>, <<"s", "h", "a", "l", "l">>,
     <<"s", "h", "e">>, <<"s", "h", "o", "u", "l", "d">>,
     <<"t", "h", "a", "t">>, <<"t", "h", "e">>, <<"t", "h", "e", "m">>,
     <<"t", "h", "e", "s", "e">>, <<"t", "h", "e", "y">>,
     <<"t", "h", "i", "s">>, <<"t", "h", "o", "s", "e">>, <<"t", "o">>,
     <<"u", "s">>, <<"w", "a", "s">>, <<"w", "e">>, <<"w", "e", "r", "e">>,
     <<"w", "i", "l", "l">>, <<"w", "i", "t", "h">>,
     <<"w", "o", "u", "l", "d">>, <<"y", "o", "u">>}

----------------------------------------------------------------------------
(* database.py: the tables behind the index *)

\* get_document_id(url): the id of the document stored under url, or None
get_document_id(docs, url) ==
    IF \E i \in DOMAIN docs : docs[i].url = url
    THEN CHOOSE i \in DOMAIN docs : docs[i].url = url
    ELSE NULL

\* add_document: INSERT OR IGNORE, then UPDATE of the row of that url
add_document(docs, url, title, content) ==
    LET row == [url |-> url, title |-> title, content |-> content]
    IN  IF get_document_id(docs, url) # NULL
        THEN [docs EXCEPT ![get_document_id(docs, url)] = row]
        ELSE Append(docs, row)

\* SELECT id FROM words WHERE word = ?
word_id_of(wrd, word) ==
    IF \E i \in DOMAIN wrd : wrd[i].word = word
    THEN CHOOSE i \in DOMAIN wrd : wrd[i].word = word
    ELSE NULL

\* add_word: the counter of a known word goes up by one, a new word starts at 1
add_word(wrd, word) ==
    IF word_id_of(wrd, word) # NULL
    THEN [wrd EXCEPT ![word_id_of(wrd, word)].frequency = @ + 1]
    ELSE Append(wrd, [word |-> word, frequency |-> 1])

\* add_inverted_index_entry with a plain INSERT on a table without the key
add_inverted_index_entry_accumulating(idx, word_id, doc_id, tf, positions) ==
    idx \cup {[word_id |-> word_id, doc_id |-> doc_id, tf |-> tf,
               positions |-> positions]}

\* add_inverted_index_entry: INSERT OR REPLACE on the key (word_id, doc_id)
add_inverted_index_entry(idx, word_id, doc_id, tf, positions) ==
    {r \in idx : ~(r.word_id = word_id /\ r.doc_id = doc_id)}
    \cup {[word_id |-> word_id, doc_id |-> doc_id, tf |-> tf,
           positions |-> positions]}

\* add_link as INSERT OR REPLACE: the row of a known pair is written again
add_link_replacing(lnk, source_doc_id, target_url, target_doc_id) ==
    {l \in lnk : ~(l.source_doc_id = source_doc_id /\ l.target_url = target_url)}
    \cup {[source_doc_id |-> source_doc_id, target_url |-> target_url,
            target_doc_id |-> target_doc_id]}

\* add_link: INSERT OR IGNORE under UNIQUE(source_doc_id, target_url)
add_link(lnk, source_doc_id, target_url, target_doc_id) ==
    IF \E l \in lnk : l.source_doc_id = source_doc_id /\ l.target_url = target_url
    THEN lnk
    ELSE lnk \cup {[source_doc_id |-> source_doc_id, target_url |-> target_url,
                    target_doc_id |-> target_doc_id]}

\* get_documents_for_word(word): the rows (doc_id, tf) of the word
get_documents_for_word(wrd, idx, word) ==
    {r \in idx : r.word_id # NULL /\ r.word_id = word_id_of(wrd, word)}

\* get_document_content(doc_id)
get_document_content(docs, doc_id) ==
    IF doc_id \in DOMAIN docs THEN docs[doc_id].content ELSE <<>>

----------------------------------------------------------------------------
(* parser.py *)

\* Counter(tokens)[word]
term_count(tokens, word) == Cardinality({i \in DOMAIN tokens : tokens[i] = word})

\* the keys of Counter(tokens), in the order of their first occurrence
term_keys(tokens) ==
    SelectSeq([i \in DOMAIN tokens |->
                  IF \E j \in 1..(i - 1) : tokens[j] = tokens[i]
                  THEN <<>> ELSE tokens[i]],
              LAMBDA w : w # <<>>)

\* positions_cache[word]: the places of word in tokens, counted from 0
token_positions(tokens, word) ==
    LET RECURSIVE from(_)
        from(i) == IF i > Len(tokens) THEN <<>>
                   ELSE IF tokens[i] = word THEN <<i - 1>> \o from(i + 1)
                   ELSE from(i + 1)
    IN  from(1)

\* the value index_document stores as tf: the absolute count
stored_tf(tokens, word) == term_count(tokens, word)

RECURSIVE index_words(_, _, _, _, _)
\* the loop over term_counts.items(): add_word, then add_inverted_index_entry
index_words(wrd, idx, doc_id, tokens, keys) ==
    IF keys = <<>> THEN [words |-> wrd, inverted_index |-> idx]
    ELSE LET word    == Head(keys)
             wrd2    == add_word(wrd, word)
             word_id == word_id_of(wrd2, word)
         IN  index_words(wrd2,
                         add_inverted_index_entry(idx, word_id, doc_id,
                                                  stored_tf(tokens, word),
                                                  token_positions(tokens, word)),
                         doc_id, tokens, Tail(keys))

RECURSIVE index_links(_, _, _, _)
\* the loop over links: get_document_id, then add_link
index_links(lnk, docs, doc_id, targets) ==
    IF targets = <<>> THEN lnk
    ELSE index_links(add_link(lnk, doc_id, Head(targets),
                              get_document_id(docs, Head(targets))),
                     docs, doc_id, Tail(targets))

\* index_document: the tables after the call
index_document(docs, wrd, idx, lnk, url, title, content, targets) ==
    LET docs2  == add_document(docs, url, title, content)
        doc_id == get_document_id(docs2, url)
        tokens == tokenize(content, STOP_WORDS)
        after  == IF tokens = <<>>
                  THEN [words |-> wrd, inverted_index |-> idx]
                  ELSE index_words(wrd, idx, doc_id, tokens, term_keys(tokens))
    IN  [documents |-> docs2, words |-> after.words,
         inverted_index |-> after.inverted_index,
         links |-> index_links(lnk, docs2, doc_id, targets)]

RECURSIVE index_words_aborting(_, _, _, _, _, _)
\* the loop over term_counts.items() leaving at the first add_word that
\* returns -1
index_words_aborting(wrd, idx, doc_id, tokens, keys, failing) ==
    IF keys = <<>> \/ Head(keys) \in failing
    THEN [words |-> wrd, inverted_index |-> idx]
    ELSE LET word    == Head(keys)
             wrd2    == add_word(wrd, word)
             word_id == word_id_of(wrd2, word)
         IN  index_words_aborting(wrd2,
                         add_inverted_index_entry(idx, word_id, doc_id,
                                                  stored_tf(tokens, word),
                                                  token_positions(tokens, word)),
                         doc_id, tokens, Tail(keys), failing)

RECURSIVE index_words_failing(_, _, _, _, _, _)
\* the loop over term_counts.items() when add_word meets an sqlite3.Error on
\* the words of failing: it rolls back and returns -1, and the loop goes on
\* with the next word
index_words_failing(wrd, idx, doc_id, tokens, keys, failing) ==
    IF keys = <<>> THEN [words |-> wrd, inverted_index |-> idx]
    ELSE IF Head(keys) \in failing
    THEN index_words_failing(wrd, idx, doc_id, tokens, Tail(keys), failing)
    ELSE LET word    == Head(keys)
             wrd2    == add_word(wrd, word)
             word_id == word_id_of(wrd2, word)
         IN  index_words_failing(wrd2,
                         add_inverted_index_entry(idx, word_id, doc_id,
                                                  stored_tf(tokens, word),
                                                  token_positions(tokens, word)),
                         doc_id, tokens, Tail(keys), failing)

\* index_document(url, title, content, links) when add_word fails on the
\* words of failing
index_document_failing(docs, wrd, idx, lnk, url, title, content, targets, failing) ==
    LET docs2  == add_document(docs, url, title, content)
        doc_id == get_document_id(docs2, url)
        tokens == tokenize(content, STOP_WORDS)
        after  == IF tokens = <<>>
                  THEN [words |-> wrd, inverted_index |-> idx]
                  ELSE index_words_failing(wrd, idx, doc_id, tokens,
                                           term_keys(tokens), failing)
    IN  [documents |-> docs2, words |-> after.words,
         inverted_index |-> after.inverted_index,
         links |-> index_links(lnk, docs2, doc_id, targets)]

----------------------------------------------------------------------------
(* search_engine.py.  A score is a signed fixed-point number with six       *)
(* decimal places, held in one integer: the integer m stands for m * 10^-6. *)

MICRO == 1000 * 1000

Abs(a) == IF a < 0 THEN 0 - a ELSE a

Sign(a) == IF a < 0 THEN 0 - 1 ELSE 1

\* a * b of two scores, rounded towards zero
MicroMul(a, b) ==
    LET ah == Abs(a) \div 1000
        al == Abs(a) % 1000
        bh == Abs(b) \div 1000
        bl == Abs(b) % 1000
        cross == ah * bl + al * bh
    IN  Sign(a) * Sign(b) *
        (ah * bh + (cross \div 1000) + (((cross % 1000) * 1000 + al * bl) \div MICRO))

\* a / b of two scores with b > 0, rounded towards zero
MicroDiv(a, b) ==
    LET r0 == Abs(a) % b
        r1 == (r0 * 100) % b
        r2 == (r1 * 100) % b
    IN  Sign(a) * ((Abs(a) \div b) * MICRO + ((r0 * 100) \div b) * 10000
                   + ((r1 * 100) \div b) * 100 + ((r2 * 100) \div b))

\* a score times the ratio count / total of two integers, rounded towards zero
MicroRatio(a, count, total) == Sign(a) * ((Abs(a) * count) \div total)

\* the float of the pagerank table as a score
ToMicro(x) == x.hi \div 100

\* math.log(k) for k = 1, 2, ...
LnMicro ==
    <<0, 693147, 1098612, 1386294, 1609438, 1791759, 1945910, 2079442,
      2197225, 2302585, 2397895, 2484907, 2564949, 2639057, 2708050, 2772589>>

\* math.log(a / b) for two positive integers
math_log(a, b) == LnMicro[a] - LnMicro[b]

\* SearchEngine(db)
SEInit(docs) ==
    [state |-> "ready", total_documents |-> Len(docs),
     idf_cache |-> [w \in {} |-> 0]]

\* calculate_idf(word) on a word that is not cached
fresh_idf(engine, wrd, idx, word) ==
    LET doc_count == Cardinality(get_documents_for_word(wrd, idx, word))
    IN  IF doc_count = 0 THEN 0
        ELSE math_log(engine.total_documents + 1, doc_count + 1) + MICRO

\* calculate_idf(word) without the cache
calculate_idf_uncached(engine, wrd, idx, word) ==
    fresh_idf(engine, wrd, idx, word)

\* calculate_idf(word): what it returns
calculate_idf(engine, wrd, idx, word) ==
    IF word \in DOMAIN engine.idf_cache
    THEN engine.idf_cache[word]
    ELSE fresh_idf(engine, wrd, idx, word)

\* idf_cache after calculate_idf was called on every term of the query
idf_cache_after(engine, wrd, idx, query_terms) ==
    [w \in (DOMAIN engine.idf_cache) \cup Range(query_terms) |->
        calculate_idf(engine, wrd, idx, w)]

\* doc_lengths of search_term_at_a_time: the documents with content, each
\* with the number of its tokens
doc_lengths(docs) ==
    [d \in {i \in DOMAIN docs : docs[i].content # <<>>} |->
        Len(tokenize(docs[d].content, STOP_WORDS))]

\* the idf of every term of the query, as calculate_idf returns it
query_idf(engine, wrd, idx, query_terms) ==
    [w \in Range(query_terms) |-> calculate_idf(engine, wrd, idx, w)]

\* the postings search_term_at_a_time adds up for a query term: none when
\* the term's idf is 0.0, and none of a document without tokens
taat_postings(wrd, idx, lengths, idf, term) ==
    IF idf[term] = 0 THEN {}
    ELSE {r \in get_documents_for_word(wrd, idx, term) :
            r.doc_id \in DOMAIN lengths /\ lengths[r.doc_id] # 0}

\* the tf-idf search_term_at_a_time computes from a stored tf:
\* calculate_tf(int(raw_tf * doc_lengths[doc_id]), doc_lengths[doc_id]) * idf
taat_tf_idf(raw_tf, doc_length, idf) ==
    MicroRatio(idf, raw_tf * doc_length, doc_length)

RECURSIVE taat_score(_, _, _, _, _, _)
\* scores[doc_id] after the terms k, k + 1, ... were added; postings[k] are
\* the postings of the k-th term
taat_score(postings, lengths, idf, query_terms, k, doc_id) ==
    IF k > Len(query_terms) THEN 0
    ELSE LET rows == {r \in postings[k] : r.doc_id = doc_id}
             tfidf == IF rows = {} THEN 0
                      ELSE taat_tf_idf((CHOOSE r \in rows : TRUE).tf,
                                       lengths[doc_id], idf[query_terms[k]])
         IN  tfidf + taat_score(postings, lengths, idf, query_terms, k + 1, doc_id)

\* the place at which a key entered scores: terms in query order, the rows
\* of a term in the order of the index on (word_id, doc_id)
taat_entry(postings, doc_id) ==
    LET k == CHOOSE k \in DOMAIN postings :
                /\ \E r \in postings[k] : r.doc_id = doc_id
                /\ \A j \in 1..(k - 1) : \A r \in postings[j] : r.doc_id # doc_id
    IN  <<k, doc_id>>

\* scores of search_term_at_a_time before the PageRank step
taat_scores(postings, lengths, idf, query_terms) ==
    [d \in UNION {{r.doc_id : r \in postings[k]} : k \in DOMAIN postings} |->
        taat_score(postings, lengths, idf, query_terms, 1, d)]

RECURSIVE daat_score(_, _, _, _)
\* doc_score of search_document_at_a_time after the terms k, k + 1, ...
daat_score(idf, query_terms, k, doc_tokens) ==
    IF k > Len(query_terms) THEN 0
    ELSE LET count == term_count(doc_tokens, query_terms[k])
             tfidf == IF idf[query_terms[k]] = 0 \/ count = 0 THEN 0
                      ELSE MicroRatio(idf[query_terms[k]], count, Len(doc_tokens))
         IN  tfidf + daat_score(idf, query_terms, k + 1, doc_tokens)

\* doc_scores of search_document_at_a_time before the PageRank step: the
\* documents with content and tokens whose doc_score is positive
daat_scores(docs, idf, query_terms) ==
    LET doc_score == [d \in DOMAIN docs |->
                        LET doc_tokens == tokenize(docs[d].content, STOP_WORDS)
                        IN  IF docs[d].content = <<>> \/ doc_tokens = <<>> THEN 0
                            ELSE daat_score(idf, query_terms, 1, doc_tokens)]
    IN  [d \in {i \in DOMAIN docs : doc_score[i] > 0} |-> doc_score[d]]

\* max(scores.values())
max_score(scores) ==
    CHOOSE m \in {scores[d] : d \in DOMAIN scores} :
        \A d \in DOMAIN scores : scores[d] <= m

\* pageranks.get(doc_id, 0.0)
pagerank_or_zero(table, doc_id) ==
    IF doc_id \in DOMAIN table THEN ToMicro(table[doc_id].pagerank) ELSE 0

\* pageranks.get(doc_id, 1.0)
pagerank_or_one(table, doc_id) ==
    IF doc_id \in DOMAIN table THEN ToMicro(table[doc_id].pagerank) ELSE MICRO

\* the PageRank step of either strategy: the scores are divided by their
\* maximum when it is positive, then multiplied by 1 + PageRank
apply_pagerank(scores, table) ==
    LET highest    == max_score(scores)
        normalized == IF highest > 0
                      THEN [d \in DOMAIN scores |-> MicroDiv(scores[d], highest)]
                      ELSE scores
    IN  [d \in DOMAIN scores |->
            MicroMul(normalized[d], MICRO + pagerank_or_one(table, d))]

\* sorted(scores.items(), key=lambda x: x[1], reverse=True): the sort is
\* stable; entry[d] is the place at which d entered the dictionary
sorted_results(scores, entry) ==
    LET before(a, b) ==
            \/ scores[a] > scores[b]
            \/ /\ scores[a] = scores[b]
               /\ \/ entry[a][1] < entry[b][1]
                  \/ entry[a][1] = entry[b][1] /\ entry[a][2] < entry[b][2]
        place(d) == 1 + Cardinality({a \in DOMAIN scores : before(a, d)})
    IN  [i \in 1..Cardinality(DOMAIN scores) |->
            CHOOSE d \in DOMAIN scores : place(d) = i]

\* the last loop of either strategy without the slice [:results_per_page]
formatted_results_uncapped(docs, scores, order, query_terms) ==
    LET kept == SelectSeq(order, LAMBDA d : get_document_content(docs, d) # <<>>)
    IN  [i \in DOMAIN kept |->
            [doc_id |-> kept[i], score |-> scores[kept[i]],
             snippet |-> generate_snippet(get_document_content(docs, kept[i]),
                                          query_terms, snippet_length)]]

\* the last loop of either strategy: the first results_per_page entries,
\* those with content, each with its snippet
formatted_results(docs, scores, order, query_terms) ==
    LET page == SubSeq(order, 1, Min(Len(order), results_per_page))
        kept == SelectSeq(page, LAMBDA d : get_document_content(docs, d) # <<>>)
    IN  [i \in DOMAIN kept |->
            [doc_id |-> kept[i], score |-> scores[kept[i]],
             snippet |-> generate_snippet(get_document_content(docs, kept[i]),
                                          query_terms, snippet_length)]]

\* search_term_at_a_time
search_term_at_a_time(engine, docs, wrd, idx, table, query, use_pagerank) ==
    LET query_terms == tokenize(query, STOP_WORDS)
        lengths  == doc_lengths(docs)
        idf      == query_idf(engine, wrd, idx, query_terms)
        postings == [k \in DOMAIN query_terms |->
                        taat_postings(wrd, idx, lengths, idf, query_terms[k])]
        scores   == taat_scores(postings, lengths, idf, query_terms)
        final    == IF use_pagerank /\ DOMAIN scores # {}
                    THEN apply_pagerank(scores, table) ELSE scores
        entry    == [d \in DOMAIN scores |-> taat_entry(postings, d)]
    IN  IF query_terms = <<>> THEN <<>>
        ELSE formatted_results(docs, final, sorted_results(final, entry), query_terms)

\* search_document_at_a_time
search_document_at_a_time(engine, docs, wrd, idx, table, query, use_pagerank) ==
    LET query_terms == tokenize(query, STOP_WORDS)
        idf    == query_idf(engine, wrd, idx, query_terms)
        scores == daat_scores(docs, idf, query_terms)
        final  == IF use_pagerank /\ DOMAIN scores # {}
                  THEN apply_pagerank(scores, table) ELSE scores
        entry  == [d \in DOMAIN scores |-> <<1, d>>]
    IN  IF query_terms = <<>> THEN <<>>
        ELSE formatted_results(docs, final, sorted_results(final, entry), query_terms)

\* search: 'term' and every unknown method run term-at-a-time
search(engine, docs, wrd, idx, table, query, method, use_pagerank) ==
    IF method = "document"
    THEN search_document_at_a_time(engine, docs, wrd, idx, table, query, use_pagerank)
    ELSE search_term_at_a_time(engine, docs, wrd, idx, table, query, use_pagerank)

\* the dictionary either strategy sorts: scores (doc_scores) after the
\* PageRank step, empty when the query has no terms
final_scores(engine, docs, wrd, idx, table, query, method, use_pagerank) ==
    LET query_terms == tokenize(query, STOP_WORDS)
        idf      == query_idf(engine, wrd, idx, query_terms)
        lengths  == doc_lengths(docs)
        postings == [k \in DOMAIN query_terms |->
                        taat_postings(wrd, idx, lengths, idf, query_terms[k])]
        scores   == IF method = "document"
                    THEN daat_scores(docs, idf, query_terms)
                    ELSE taat_scores(postings, lengths, idf, query_terms)
    IN  IF query_terms = <<>> THEN <<>>
        ELSE IF use_pagerank /\ DOMAIN scores # {}
        THEN apply_pagerank(scores, table) ELSE scores

----------------------------------------------------------------------------
(* pagerank_mapreduce.py *)

MRNone ==
    [state |-> "none", doc_ids |-> <<>>, num_documents |-> 0,
     pagerank |-> <<>>, outgoing_links |-> <<>>, current_pagerank |-> <<>>,
     iteration |-> 0, converged |-> FALSE, calls |-> 0]

\* __init__ keeping every row of get_outgoing_links, resolved or not
MRInit_unfiltered(docs, lnk) ==
    LET ids == doc_ids_of(docs)
        n   == Len(ids)
    IN  [state |-> "ready",
         doc_ids |-> ids,
         num_documents |-> n,
         pagerank |-> [d \in Range(ids) |-> FDiv(FOne, n)],
         outgoing_links |->
            [d \in Range(ids) |->
                {l.target_doc_id : l \in get_outgoing_links(lnk, d)}],
         current_pagerank |-> <<>>,
         iteration |-> 0,
         converged |-> FALSE,
         calls |-> 0]

\* PageRankMapReduce.__init__
MRInit(docs, lnk) ==
    LET ids == doc_ids_of(docs)
        n   == Len(ids)
    IN  [state |-> "ready",
         doc_ids |-> ids,
         num_documents |-> n,
         \* {doc_id: 1.0 / num_documents for doc_id in doc_ids}: no division
         \* is evaluated when doc_ids is empty
         pagerank |-> [d \in Range(ids) |-> FDiv(FOne, n)],
         outgoing_links |->
            [d \in Range(ids) |->
                {l.target_doc_id : l \in {r \in get_outgoing_links(lnk, d) :
                                            r.target_doc_id # NULL}}],
         current_pagerank |-> <<>>,
         iteration |-> 0,
         converged |-> FALSE,
         calls |-> 0]

\* map_phase with the whole rank sent along every link
map_phase_undivided(e, doc_id, rank) ==
    IF doc_id \notin DOMAIN e.outgoing_links \/ e.outgoing_links[doc_id] = {}
    THEN {}
    ELSE {<<doc_id, t, rank>> : t \in e.outgoing_links[doc_id]}

\* map_phase: the (source, target, share) triples of one document
map_phase(e, doc_id, rank) ==
    IF doc_id \notin DOMAIN e.outgoing_links \/ e.outgoing_links[doc_id] = {}
    THEN {}
    ELSE {<<doc_id, t, FDiv(rank, Cardinality(e.outgoing_links[doc_id]))>> :
            t \in e.outgoing_links[doc_id]}

\* reduce_phase: the contributions summed by target
reduce_phase(contributions) ==
    [t \in {c[2] : c \in contributions} |->
        LET mine == {c \in contributions : c[2] = t}
            val  == [c \in mine |-> c[3]]
        IN  FSum(val, mine)]

\* base_rank + incoming_rank of one document
combine(e, reduced, doc_id) ==
    LET base_rank == FDiv(FSub(FOne, damping_factor(FOne)), e.num_documents)
        incoming_rank ==
            damping_factor(IF doc_id \in DOMAIN reduced THEN reduced[doc_id]
                                                        ELSE FZero)
    IN  FAdd(base_rank, incoming_rank)

\* calculate_pagerank_iteration
calculate_pagerank_iteration(e, current_pagerank) ==
    LET all_contributions ==
            UNION {map_phase(e, d, current_pagerank[d]) : d \in DOMAIN current_pagerank}
        new_ranks == reduce_phase(all_contributions)
    IN  [d \in (DOMAIN new_ranks) \cup Range(e.doc_ids) |->
            IF d \in Range(e.doc_ids) THEN combine(e, new_ranks, d)
                                      ELSE new_ranks[d]]

LIMB == 100 * 100

\* the square of a number below 10^-4, as five limbs of base LIMB
SquareLimbs(a) ==
    LET d2 == a.hi
        d1 == a.lo \div LIMB
        d0 == a.lo % LIMB
    IN  <<d0 * d0, 2 * d0 * d1, 2 * d0 * d2 + d1 * d1, 2 * d1 * d2, d2 * d2>>

RECURSIVE SumLimbs(_, _)
SumLimbs(f, S) ==
    IF S = {} THEN <<0, 0, 0, 0, 0>>
    ELSE LET x == CHOOSE y \in S : TRUE
             r == SumLimbs(f, S \ {x})
         IN  [i \in 1..5 |-> f[x][i] + r[i]]

\* calculate_convergence(old, new) < tolerance, that is
\* (sum of diff^2 / num_documents) ** 0.5 < tolerance, decided exactly as
\* sum of diff^2 < num_documents * tolerance^2
convergence_below_tolerance(e, old_ranks, new_ranks) ==
    LET ids  == Range(e.doc_ids)
        diff == [d \in ids |-> FAbsDiff(new_ranks[d], old_ranks[d])]
    IN  IF \E d \in ids : diff[d].hi >= LIMB THEN FALSE
        ELSE LET c  == SumLimbs([d \in ids |-> SquareLimbs(diff[d])], ids)
                 t2 == c[2] + (c[1] \div LIMB)
                 t3 == c[3] + (t2 \div LIMB)
                 t4 == c[4] + (t3 \div LIMB)
                 t5 == c[5] + (t4 \div LIMB)
             IN  t5 < e.num_documents * tolerance.hi * tolerance.hi

\* the loop of calculate() goes on after an iteration
MRLoopGoesOn(iteration, converged) == iteration < max_iterations /\ ~converged

----------------------------------------------------------------------------
(* pagerank_pregel.py *)

\* the threshold 1e-10 of run_superstep
ActiveThreshold == Fx(0, 1000 * 1000)

\* PregelVertex.send_messages: (neighbor, share) pairs, tagged with the sender
send_messages(i, vertex) ==
    IF vertex.outgoing_edges = {} THEN {}
    ELSE {<<i, t, FDiv(vertex.value, Cardinality(vertex.outgoing_edges))>> :
            t \in vertex.outgoing_edges}

\* the vertices whose messages phase 1 of run_superstep collects
Senders(graph) == {i \in DOMAIN graph.vertices : graph.vertices[i].active}

\* phase 1 of run_superstep: self.messages
collect_messages(graph) ==
    UNION {send_messages(i, graph.vertices[i]) : i \in Senders(graph)}

\* sum(self.messages.get(vertex.id, []))
incoming_sum(messages, i) ==
    LET mine == {m \in messages : m[2] = i}
        val  == [m \in mine |-> m[3]]
    IN  FSum(val, mine)

\* new_value = random_walk + damping_factor * incoming_sum
new_value(graph, messages, i) ==
    LET random_walk == FDiv(FSub(FOne, damping_factor(FOne)), graph.num_vertices)
    IN  FAdd(random_walk, damping_factor(incoming_sum(messages, i)))

\* SimplePregelGraph.run_superstep: the graph after the superstep
run_superstep(graph) ==
    LET messages == collect_messages(graph)
    IN  [graph EXCEPT
            !.superstep = @ + 1,
            !.vertices =
                [i \in DOMAIN graph.vertices |->
                    LET nv == new_value(graph, messages, i)
                    IN  [graph.vertices[i] EXCEPT
                            !.active = FLess(ActiveThreshold,
                                             FAbsDiff(nv, graph.vertices[i].value)),
                            !.value = nv]]]

RECURSIVE send_phase(_, _, _)
\* phase 1 of run_superstep, vertex after vertex: self.messages after the
\* vertices of order were asked for their messages
send_phase(graph, order, messages) ==
    IF order = <<>> THEN messages
    ELSE LET i == Head(order)
         IN  send_phase(graph, Tail(order),
                        IF graph.vertices[i].active
                        THEN messages \cup send_messages(i, graph.vertices[i])
                        ELSE messages)

RECURSIVE compute_phase(_, _, _)
\* phase 2 of run_superstep, vertex after vertex: the graph after the
\* vertices of order were given their new value and their mark
compute_phase(graph, order, messages) ==
    IF order = <<>> THEN graph
    ELSE LET i  == Head(order)
             nv == new_value(graph, messages, i)
         IN  compute_phase(
                [graph EXCEPT !.vertices[i] =
                    [@ EXCEPT !.active = FLess(ActiveThreshold,
                                               FAbsDiff(nv, graph.vertices[i].value)),
                              !.value = nv]],
                Tail(order), messages)

RECURSIVE update_in_place(_, _)
\* one loop instead of two: a vertex gets its new value from the messages
\* the vertices would send at that moment
update_in_place(graph, order) ==
    IF order = <<>> THEN graph
    ELSE LET i  == Head(order)
             nv == new_value(graph, collect_messages(graph), i)
         IN  update_in_place(
                [graph EXCEPT !.vertices[i] =
                    [@ EXCEPT !.active = FLess(ActiveThreshold,
                                               FAbsDiff(nv, graph.vertices[i].value)),
                              !.value = nv]],
                Tail(order))

\* run_superstep with the two phases merged into one loop over the vertices
run_superstep_in_place(graph, order) ==
    [update_in_place(graph, order) EXCEPT !.superstep = @ + 1]

\* run_superstep with its two loops over self.vertices taken in a given order
run_superstep_in_order(graph, order) ==
    [compute_phase(graph, order, send_phase(graph, order, {}))
        EXCEPT !.superstep = @ + 1]

\* what run_superstep returns: active_vertices > 0
any_active(graph) == \E i \in DOMAIN graph.vertices : graph.vertices[i].active

\* SimplePregelGraph.initialize_pagerank
initialize_pagerank(graph) ==
    [graph EXCEPT !.vertices =
        [i \in DOMAIN graph.vertices |->
            [graph.vertices[i] EXCEPT !.value = FDiv(FOne, graph.num_vertices),
                                      !.active = TRUE]]]

NoGraph == [is_none |-> TRUE, num_vertices |-> 0, vertices |-> <<>>, superstep |-> 0]

\* id_to_index: the position of a document id in doc_ids, from 0
id_to_index(ids) == [d \in Range(ids) |-> (CHOOSE i \in DOMAIN ids : ids[i] = d) - 1]

\* SimplePregelGraph.__init__ followed by PageRankPregel.build_graph
build_graph(ids, lnk) ==
    LET n   == Len(ids)
        idx == id_to_index(ids)
    IN  [is_none |-> FALSE,
         num_vertices |-> n,
         superstep |-> 0,
         vertices |->
            [i \in 0..(n - 1) |->
                [value |-> FZero,
                 active |-> TRUE,
                 outgoing_edges |->
                    {idx[l.target_doc_id] :
                        l \in {r \in get_outgoing_links(lnk, ids[i + 1]) :
                                 r.target_doc_id # NULL
                                 /\ r.target_doc_id \in DOMAIN idx}}]]]

PGNone ==
    [state |-> "none", doc_ids |-> <<>>, num_documents |-> 0, graph |-> NoGraph,
     iteration |-> 0, active |-> TRUE, result |-> <<>>, calls |-> 0]

\* PageRankPregel.__init__
PGInit(docs, lnk) ==
    LET ids == doc_ids_of(docs)
    IN  [state |-> "ready",
         doc_ids |-> ids,
         num_documents |-> Len(ids),
         graph |-> IF Len(ids) = 0 THEN NoGraph ELSE build_graph(ids, lnk),
         iteration |-> 0,
         active |-> TRUE,
         result |-> <<>>,
         calls |-> 0]

\* PageRankPregel.get_current_pagerank
get_current_pagerank(e) ==
    IF e.graph.is_none THEN <<>>
    ELSE [d \in Range(e.doc_ids) |-> e.graph.vertices[id_to_index(e.doc_ids)[d]].value]

\* the loop of calculate() without its cap
PGLoopUncapped(iteration, active) == active

\* the loop of calculate() with a cap one short
PGLoopOneShort(iteration, active) == iteration + 1 < max_iterations /\ active

\* the loop of calculate() goes on after a superstep
PGLoopGoesOn(iteration, active) == iteration < max_iterations /\ active

----------------------------------------------------------------------------
(* The PageRank runs.  The program is sequential: while a calculate() call *)
(* is in its loop nothing else runs.                                       *)

Idle == mr.state # "calc" /\ pg.state # "calc"

\* mapreduce_pr = PageRankMapReduce(db)
MRConstruct ==
    /\ Idle
    /\ mr.state = "none"
    /\ mr' = MRInit(documents, links)
    /\ UNCHANGED <<documents, links, pagerank, pg, searchVars>>

\* calculate() of Engine B up to its loop: current_pagerank = self.pagerank.copy()
MRStartsLoop ==
    [mr EXCEPT !.state = "calc", !.current_pagerank = mr.pagerank,
               !.iteration = 0, !.converged = FALSE, !.calls = @ + 1]

\* PageRankMapReduce.calculate, up to the loop
MRCalculate ==
    /\ Idle
    /\ mr.state = "ready"
    /\ mr' = MRStartsLoop
    /\ UNCHANGED <<documents, links, pagerank, pg, searchVars>>

\* PageRankMapReduce.calculate called again on the instance, up to the loop
MRCalculateAgain ==
    /\ Idle
    /\ mr.state = "done"
    /\ mr.calls < MaxCalculateCalls
    /\ mr' = MRStartsLoop
    /\ UNCHANGED <<documents, links, pagerank, pg, searchVars>>

\* one pass of the loop of PageRankMapReduce.calculate and, when the loop
\* ends, the rest of calculate
MRIteration ==
    /\ mr.state = "calc"
    /\ LET new_pagerank == calculate_pagerank_iteration(mr, mr.current_pagerank)
       IN  IF mr.num_documents = 0
           THEN \* calculate_convergence divides by num_documents: ZeroDivisionError
                /\ mr' = [mr EXCEPT !.state = "error"]
                /\ UNCHANGED pagerank
           ELSE LET converged == convergence_below_tolerance(mr, mr.current_pagerank,
                                                             new_pagerank)
                    iteration == mr.iteration + 1
                IN  /\ pagerank' = update_pagerank(pagerank, new_pagerank, iteration)
                    /\ mr' = IF MRLoopGoesOn(iteration, converged)
                             THEN [mr EXCEPT !.current_pagerank = new_pagerank,
                                             !.iteration = iteration,
                                             !.converged = converged]
                             ELSE [mr EXCEPT !.current_pagerank = new_pagerank,
                                             !.iteration = iteration,
                                             !.converged = converged,
                                             !.pagerank = new_pagerank,
                                             !.state = "done"]
    /\ UNCHANGED <<documents, links, pg, searchVars>>

\* pregel_pr = PageRankPregel(db)
PGConstruct ==
    /\ Idle
    /\ pg.state = "none"
    /\ pg' = PGInit(documents, links)
    /\ UNCHANGED <<documents, links, pagerank, mr, searchVars>>

\* calculate() of Engine A up to its loop: {} without a graph, else
\* initialize_pagerank()
PGStartsLoop ==
    IF pg.graph.is_none \/ pg.num_documents = 0
    THEN [pg EXCEPT !.state = "done", !.result = <<>>, !.iteration = 0,
                    !.calls = @ + 1]
    ELSE [pg EXCEPT !.state = "calc", !.iteration = 0, !.active = TRUE,
                    !.graph = initialize_pagerank(pg.graph), !.calls = @ + 1]

\* PageRankPregel.calculate, up to the loop
PGCalculate ==
    /\ Idle
    /\ pg.state = "ready"
    /\ pg' = PGStartsLoop
    /\ UNCHANGED <<documents, links, pagerank, mr, searchVars>>

\* PageRankPregel.calculate called again on the instance, up to the loop
PGCalculateAgain ==
    /\ Idle
    /\ pg.state = "done"
    /\ pg.calls < MaxCalculateCalls
    /\ pg' = PGStartsLoop
    /\ UNCHANGED <<documents, links, pagerank, mr, searchVars>>

\* one pass of the loop of PageRankPregel.calculate and, when the loop ends,
\* the rest of calculate
PGSuperstep ==
    /\ pg.state = "calc"
    /\ LET graph     == run_superstep(pg.graph)
           active    == any_active(graph)
           iteration == pg.iteration + 1
           after     == [pg EXCEPT !.graph = graph, !.iteration = iteration,
                                   !.active = active]
       IN  /\ pagerank' = update_pagerank(pagerank, get_current_pagerank(after), iteration)
           /\ pg' = IF PGLoopGoesOn(iteration, active)
                    THEN after
                    ELSE [after EXCEPT !.state = "done",
                                       !.result = get_current_pagerank(after)]
    /\ UNCHANGED <<documents, links, mr, searchVars>>

\* nothing was indexed through index_document, no query engine exists and
\* no call was made
NoCall == [op |-> "none"]

SENone == [state |-> "none"]

WPNone == [state |-> "none"]

NothingIndexed ==
    /\ words = <<>>
    /\ inverted_index = {}
    /\ se = SENone
    /\ indexed = 0
    /\ wp = WPNone
    /\ call = NoCall
    /\ ret = NULL

NextPR ==
    \/ MRConstruct
    \/ MRCalculate
    \/ MRIteration
    \/ PGConstruct
    \/ PGCalculate
    \/ PGSuperstep

\* an URL no document has
UnknownUrl == Url(0)

\* the rows the links table may hold for n documents: a link whose target was
\* known when it was stored, a link stored before its target was indexed
\* (target_doc_id stays NULL), a link to a page never indexed
LinkRows(n) ==
    {[source_doc_id |-> i, target_url |-> Url(j), target_doc_id |-> j] :
        i \in 1..n, j \in 1..n}
    \cup {[source_doc_id |-> p[1], target_url |-> Url(p[2]), target_doc_id |-> NULL] :
            p \in {q \in (1..n) \X (1..n) : q[1] < q[2]}}
    \cup {[source_doc_id |-> i, target_url |-> UnknownUrl, target_doc_id |-> NULL] :
            i \in 1..n}

\* UNIQUE(source_doc_id, target_url)
LinksUnique(lnk) ==
    \A a, b \in lnk :
        (a.source_doc_id = b.source_doc_id /\ a.target_url = b.target_url) => a = b

StoredDocument(i) == [url |-> Url(i), title |-> "t", content |-> <<>>]

InitPR ==
    /\ \E n \in 0..MaxDocs :
        /\ documents = [i \in 1..n |-> StoredDocument(i)]
        /\ links \in {L \in SUBSET LinkRows(n) :
                        Cardinality(L) <= MaxLinks /\ LinksUnique(L)}
    /\ pagerank = <<>>
    /\ mr = MRNone
    /\ pg = PGNone
    /\ NothingIndexed

SpecPR == InitPR /\ [][NextPR]_vars

\* the engines used as objects: calculate() may be called again on an
\* instance that has returned
NextRecalc ==
    \/ NextPR
    \/ MRCalculateAgain
    \/ PGCalculateAgain

SpecRecalc == InitPR /\ [][NextRecalc]_vars

\* Engine A alone on the same corpora
NextPregel ==
    \/ PGConstruct
    \/ PGCalculate
    \/ PGSuperstep

SpecPregel == InitPR /\ [][NextPregel]_vars

\* the corpus of four documents with the links doc1 -> doc2, doc2 -> doc3,
\* doc3 -> doc1 and doc4 -> doc2
ScenarioLinks ==
    {[source_doc_id |-> e[1], target_url |-> Url(e[2]), target_doc_id |-> e[2]] :
        e \in {<<1, 2>>, <<2, 3>>, <<3, 1>>, <<4, 2>>}}

InitScenario ==
    /\ documents = [i \in 1..4 |-> StoredDocument(i)]
    /\ links = ScenarioLinks
    /\ pagerank = <<>>
    /\ mr = MRNone
    /\ pg = PGNone
    /\ NothingIndexed

SpecScenario == InitScenario /\ [][NextPR]_vars

----------------------------------------------------------------------------
(* The text helpers called on their own *)

\* tokens = tokenize(text, stop_words)
Tokenize(text, stop_words) ==
    /\ Idle
    /\ call' = [op |-> "tokenize", text |-> text, stop_words |-> stop_words]
    /\ ret' = tokenize(text, stop_words)
    /\ UNCHANGED <<documents, links, pagerank, words, inverted_index, mr, pg,
                   se, indexed, wp>>

\* snippet = generate_snippet(text, query_terms, max_length)
GenerateSnippet(text, query_terms, max_length) ==
    /\ Idle
    /\ call' = [op |-> "generate_snippet", text |-> text,
                query_terms |-> query_terms, max_length |-> max_length]
    /\ ret' = generate_snippet(text, query_terms, max_length)
    /\ UNCHANGED <<documents, links, pagerank, words, inverted_index, mr, pg,
                   se, indexed, wp>>

EmptyDatabase ==
    /\ documents = <<>>
    /\ links = {}
    /\ pagerank = <<>>
    /\ words = <<>>
    /\ inverted_index = {}
    /\ mr = MRNone
    /\ pg = PGNone
    /\ se = SENone
    /\ indexed = 0
    /\ wp = WPNone

\* the characters of the texts given to tokenize: letters of either case, a
\* letter that is a stop word, white space, punctuation, tag brackets and the
\* capital letter whose lower case is two characters
TokChars == {"a", "b", "A", " ", ".", "<", ">", CapitalIDot}

TokTexts == UNION {[1..n -> TokChars] : n \in 0..MaxTextLen}

StopSets == {{}, STOP_WORDS, {<<"b">>}}

\* a caller about to call tokenize(text, stop_words)
InitTok ==
    /\ EmptyDatabase
    /\ \E text \in TokTexts, stop_words \in StopSets :
        call = [op |-> "none", text |-> text, stop_words |-> stop_words]
    /\ ret = NULL

NextTok == call.op = "none" /\ Tokenize(call.text, call.stop_words)

SpecTok == InitTok /\ [][NextTok]_vars

Rep(c, n) == [i \in 1..n |-> c]

\* what every term shorter than it has room for after the first position
\* inside a window of snippet_length characters
HalfWindow == snippet_length - (snippet_length \div 2)

PadLengths == {0, 1, HalfWindow - 1, HalfWindow, HalfWindow + 1, snippet_length + 10}

SnipWords == {<<>>, <<"M", "l">>, Rep("z", HalfWindow), Rep("z", HalfWindow + 1)}

\* texts: padding, a word, padding
SnipTexts ==
    {Rep(f, before) \o w \o Rep("-", after) :
        f \in {"-", CapitalIDot}, before \in PadLengths, w \in SnipWords,
        after \in {0, HalfWindow + 10}}

SnipQueries ==
    {<<>>, <<<<"m", "l">>>>, <<<<"q">>>>, <<Rep("z", HalfWindow)>>,
     <<Rep("z", HalfWindow + 1)>>, <<<<"q">>, <<"m", "l">>>>}

\* a caller about to call generate_snippet(text, query_terms, snippet_length)
InitSnip ==
    /\ EmptyDatabase
    /\ \E text \in SnipTexts, query_terms \in SnipQueries :
        call = [op |-> "none", text |-> text, query_terms |-> query_terms]
    /\ ret = NULL

NextSnip ==
    call.op = "none" /\ GenerateSnippet(call.text, call.query_terms, snippet_length)

SpecSnip == InitSnip /\ [][NextSnip]_vars

----------------------------------------------------------------------------
(* Indexing and searching *)

\* parser.index_document(url, title, content, links)
IndexDocument(url, title, content, targets) ==
    /\ Idle
    /\ indexed < MaxIndexCalls
    /\ LET after == index_document(documents, words, inverted_index, links,
                                   url, title, content, targets)
       IN  /\ documents' = after.documents
           /\ words' = after.words
           /\ inverted_index' = after.inverted_index
           /\ links' = after.links
    /\ indexed' = indexed + 1
    /\ call' = [op |-> "index_document", url |-> url, title |-> title,
                content |-> content, targets |-> targets]
    /\ ret' = NULL
    /\ UNCHANGED <<pagerank, mr, pg, se, wp>>

\* search_engine = SearchEngine(db)
SEConstruct ==
    /\ Idle
    /\ se' = SEInit(documents)
    /\ call' = [op |-> "SearchEngine"]
    /\ ret' = NULL
    /\ UNCHANGED <<documents, links, pagerank, words, inverted_index, mr, pg, indexed, wp>>

\* search(query, method, use_pagerank) counting the terms of the query in the
\* term dictionary
Search_counting(query, method, use_pagerank) ==
    /\ Idle
    /\ se.state = "ready"
    /\ ret' = search(se, documents, words, inverted_index, pagerank,
                     query, method, use_pagerank)
    /\ se' = IF tokenize(query, STOP_WORDS) = <<>> THEN se
             ELSE [se EXCEPT !.idf_cache =
                      idf_cache_after(se, words, inverted_index,
                                      tokenize(query, STOP_WORDS))]
    /\ words' = IF tokenize(query, STOP_WORDS) = <<>> THEN words
                ELSE add_word(words, tokenize(query, STOP_WORDS)[1])
    /\ call' = [op |-> "search", query |-> query, method |-> method,
                use_pagerank |-> use_pagerank]
    /\ UNCHANGED <<documents, links, pagerank, inverted_index, mr, pg, indexed, wp>>

\* results = search_engine.search(query, method, use_pagerank)
Search(query, method, use_pagerank) ==
    /\ Idle
    /\ se.state = "ready"
    /\ ret' = search(se, documents, words, inverted_index, pagerank,
                     query, method, use_pagerank)
    /\ se' = IF tokenize(query, STOP_WORDS) = <<>> THEN se
             ELSE [se EXCEPT !.idf_cache =
                      idf_cache_after(se, words, inverted_index,
                                      tokenize(query, STOP_WORDS))]
    /\ call' = [op |-> "search", query |-> query, method |-> method,
                use_pagerank |-> use_pagerank]
    /\ UNCHANGED <<documents, links, pagerank, words, inverted_index, mr, pg, indexed, wp>>

IndexUrls == {Url(i) : i \in 1..MaxUrls}

\* contents: none, only a stop word, one term, two terms, one term twice
IndexContents ==
    {<<>>, <<"t", "h", "e">>, <<"x">>, <<"x", " ", "y">>, <<"y", " ", "y">>}

IndexLinks == {<<>>}

\* queries: empty, only a stop word, one term, two terms (one of them in
\* capitals), a term no document has
Queries ==
    {<<>>, <<"T", "h", "e">>, <<"x">>, <<"X", " ", "y">>, <<"z">>}

Methods == {"term", "document"}

Init ==
    /\ EmptyDatabase
    /\ call = NoCall
    /\ ret = NULL

Next ==
    \/ \E url \in IndexUrls, content \in IndexContents, targets \in IndexLinks :
            IndexDocument(url, "t", content, targets)
    \/ SEConstruct
    \/ \E query \in Queries, method \in Methods, use_pagerank \in BOOLEAN :
            Search(query, method, use_pagerank)

Spec == Init /\ [][Next]_vars

\* the same program on a corpus of copies of one content, with tokenize also
\* called on its own on the texts of the queries
StopWordContents == {<<"x", " ", "y">>}

NextStopWords ==
    \/ \E url \in IndexUrls, content \in StopWordContents :
            IndexDocument(url, "t", content, <<>>)
    \/ SEConstruct
    \/ \E query \in Queries, method \in Methods, use_pagerank \in BOOLEAN :
            Search(query, method, use_pagerank)
    \/ \E text \in Queries, stop_words \in StopSets : Tokenize(text, stop_words)

SpecStopWords == Init /\ [][NextStopWords]_vars

\* the same program on a corpus that fills more than one page of results:
\* the documents were indexed one after the other, each linking to pages
\* indexed before it, and Engine B may run before or between the queries
PageContents ==
    <<<<"x">>, <<"x", " ", "y">>, <<"y", " ", "y">>, <<"x", " ", "z">>,
      <<"y", " ", "x", " ", "x">>, <<>>, <<"t", "h", "e">>>>

\* every seventh document has no content and every seventh only a stop word
\* when skip is 0; with skip = 2 every document has a term of the queries
PageContent(i, skip) == PageContents[((i + 4 * skip) % (Len(PageContents) - skip)) + 1]

PageTargets(i) ==
    IF i = 1 THEN <<>>
    ELSE IF i = 2 THEN <<Url(1)>>
    ELSE <<Url(1), Url(i - 1)>>

RECURSIVE indexed_corpus(_, _)
\* the tables after index_document was called for the first n pages
indexed_corpus(n, skip) ==
    IF n = 0
    THEN [documents |-> <<>>, words |-> <<>>, inverted_index |-> {}, links |-> {}]
    ELSE LET before == indexed_corpus(n - 1, skip)
         IN  index_document(before.documents, before.words, before.inverted_index,
                            before.links, Url(n), "t", PageContent(n, skip),
                            PageTargets(n))

InitPage ==
    /\ \E n \in {PageDocs}, skip \in {0, 2} :
        LET corpus == indexed_corpus(n, skip)
        IN  /\ documents = corpus.documents
            /\ words = corpus.words
            /\ inverted_index = corpus.inverted_index
            /\ links = corpus.links
            /\ indexed = n
            /\ wp = WPNone
    /\ pagerank = <<>>
    /\ mr = MRNone
    /\ pg = PGNone
    /\ se = SENone
    /\ call = NoCall
    /\ ret = NULL

\* queries of one term and of two terms
PageQueries == {<<"x">>, <<"X", " ", "y">>}

NextPage ==
    \/ SEConstruct
    \/ \E query \in PageQueries, method \in Methods, use_pagerank \in BOOLEAN :
            Search(query, method, use_pagerank)
    \/ MRConstruct
    \/ MRCalculate
    \/ MRIteration

SpecPage == InitPage /\ [][NextPage]_vars

\* the crawl: pages with links are indexed into the database file an earlier
\* run left (empty, or holding one page), and the engines are constructed
\* before, between or after the calls
CrawlContents == {<<>>, <<"x">>}

\* no link, a link to either page, a list that names a page twice
CrawlLinks == {<<>>, <<Url(1)>>, <<Url(2)>>, <<Url(2), Url(1), Url(2)>>}

InitCrawl ==
    /\ \E earlier \in BOOLEAN, targets \in CrawlLinks :
        LET empty  == [documents |-> <<>>, words |-> <<>>, inverted_index |-> {},
                       links |-> {}]
            corpus == IF earlier
                      THEN index_document(empty.documents, empty.words,
                                          empty.inverted_index, empty.links,
                                          Url(1), "t", <<"x">>, targets)
                      ELSE empty
        IN  /\ documents = corpus.documents
            /\ words = corpus.words
            /\ inverted_index = corpus.inverted_index
            /\ links = corpus.links
    /\ indexed = 0
    /\ wp = WPNone
    /\ pagerank = <<>>
    /\ mr = MRNone
    /\ pg = PGNone
    /\ se = SENone
    /\ call = NoCall
    /\ ret = NULL

NextCrawl ==
    \/ \E url \in IndexUrls, content \in CrawlContents, targets \in CrawlLinks :
            IndexDocument(url, "t", content, targets)
    \/ MRConstruct
    \/ PGConstruct

SpecCrawl == InitCrawl /\ [][NextCrawl]_vars

----------------------------------------------------------------------------
(* Properties of the PageRank engines *)

MRIterated == mr.state \in {"calc", "done"} /\ mr.iteration >= 1

PGIterated == pg.state \in {"calc", "done"} /\ pg.iteration >= 1

MRScoreSum == FSum(mr.current_pagerank, DOMAIN mr.current_pagerank)

PGScoreSum == FSum(get_current_pagerank(pg), DOMAIN get_current_pagerank(pg))

\* C1: run on the same corpus with the same configuration, Engine A (Pregel)
\* and Engine B (MapReduce) return vectors in which every document's two
\* scores differ by less than the tolerance.
C1_EnginesAgree ==
    (mr.state = "done" /\ pg.state = "done") =>
        \A d \in DOMAIN mr.pagerank :
            FLess(FAbsDiff(mr.pagerank[d], pg.result[d]), tolerance)

\* C4: after every iteration/superstep of either engine the scores sum to at
\* most 1, and the sum is 1 only when no document has zero outdegree.
C4_ScoreSumAtMostOne ==
    /\ MRIterated =>
        /\ FLeq(MRScoreSum, FOne)
        /\ MRScoreSum = FOne => \A d \in DOMAIN mr.outgoing_links :
                                    mr.outgoing_links[d] # {}
    /\ PGIterated =>
        /\ FLeq(PGScoreSum, FOne)
        /\ PGScoreSum = FOne => \A i \in DOMAIN pg.graph.vertices :
                                    pg.graph.vertices[i].outgoing_edges # {}

\* Engine B ends after several iterations on a corpus of two or more documents,
\* none of zero outdegree, with the scores summing to exactly 1
C4_Witness ==
    /\ mr.state = "done" /\ mr.iteration >= 2 /\ mr.num_documents >= 2
    /\ MRScoreSum = FOne
    /\ \A d \in DOMAIN mr.outgoing_links : mr.outgoing_links[d] # {}

C5_Bounds ==
    /\ (mr.num_documents >= 1 /\ mr.state = "done") =>
        /\ mr.iteration >= 1
        /\ mr.iteration <= max_iterations
        /\ mr.iteration < max_iterations => mr.converged
    /\ (mr.num_documents >= 1 /\ mr.state = "calc" /\ mr.iteration >= 1) =>
        /\ mr.iteration < max_iterations
        /\ ~mr.converged
    /\ (pg.num_documents >= 1 /\ pg.state = "done") =>
        /\ pg.iteration >= 1
        /\ pg.iteration <= max_iterations
        /\ pg.iteration < max_iterations => ~any_active(pg.graph)
    /\ (pg.num_documents >= 1 /\ pg.state = "calc" /\ pg.iteration >= 1) =>
        /\ pg.iteration < max_iterations
        /\ any_active(pg.graph)

\* a step taken while a calculate() loop runs is one pass of that loop, and it
\* advances the pass counter by one
C5_Progress ==
    /\ (mr.state = "calc" /\ mr.num_documents >= 1) => mr'.iteration = mr.iteration + 1
    /\ (pg.state = "calc" /\ pg.num_documents >= 1) => pg'.iteration = pg.iteration + 1

\* C5: on a corpus of at least one document calculate() of either engine
\* ends, after at least one and at most max_iterations passes (every step of
\* a running loop advances its pass counter by one, and the counter of a
\* running loop is below the cap); Engine A ends before the cap
\* exactly when a superstep leaves no vertex active, Engine B exactly when the
\* RMS difference is below the tolerance.
C5_Termination == []C5_Bounds /\ [][C5_Progress]_vars

\* both ways of ending happen: Engine B below the tolerance before the cap
\* after several passes, Engine A at the cap with a vertex still active
C5_Witness ==
    /\ mr.state = "done" /\ mr.iteration > 1 /\ mr.iteration < max_iterations
    /\ pg.state = "done" /\ pg.iteration = max_iterations /\ any_active(pg.graph)

\* C7: on a corpus with zero documents, constructing either engine and
\* calling calculate() raises no error and returns an empty vector.
C7_EmptyCorpusNoError ==
    Len(documents) = 0 =>
        /\ mr.state # "error"
        /\ mr.state = "done" => mr.pagerank = <<>>
        /\ pg.state = "done" => pg.result = <<>>

StrictlyHighest(ranks, d) == \A o \in DOMAIN ranks : o # d => FLess(ranks[o], ranks[d])

StrictlyLowest(ranks, d) == \A o \in DOMAIN ranks : o # d => FLess(ranks[d], ranks[o])

\* C10: on the four-document corpus doc1 -> doc2 -> doc3 -> doc1, doc4 -> doc2
\* each engine returns a vector in which doc2 has the strictly highest score
\* and doc4 the strictly lowest.
C10_ScenarioRanking ==
    /\ mr.state = "done" =>
        StrictlyHighest(mr.pagerank, 2) /\ StrictlyLowest(mr.pagerank, 4)
    /\ pg.state = "done" =>
        StrictlyHighest(pg.result, 2) /\ StrictlyLowest(pg.result, 4)

C10_Witness ==
    /\ links = ScenarioLinks
    /\ mr.state = "done" /\ mr.iteration > 1
    /\ pg.state = "done" /\ pg.iteration > 1

\* the documents with a link to doc_id that Engine B counts
InNeighbours(e, doc_id) == {j \in DOMAIN e.outgoing_links : doc_id \in e.outgoing_links[j]}

\* (1 - d)/N + d * (sum over the in-neighbours j of old[j] / outdegree(j))
PageRankEquation(e, old, doc_id) ==
    LET share == [j \in InNeighbours(e, doc_id) |->
                    FDiv(old[j], Cardinality(e.outgoing_links[j]))]
    IN  FAdd(FDiv(FSub(FOne, damping_factor(FOne)), e.num_documents),
             damping_factor(FSum(share, InNeighbours(e, doc_id))))

\* one pass of the loop of Engine B
C19_Iteration ==
    (mr.state = "calc" /\ mr.num_documents >= 1) =>
        /\ DOMAIN mr'.current_pagerank = Range(mr.doc_ids)
        /\ \A i \in Range(mr.doc_ids) :
                mr'.current_pagerank[i] = PageRankEquation(mr, mr.current_pagerank, i)

\* C19: one iteration of Engine B maps a vector old to a vector new whose
\* keys are exactly the documents and in which, for every document i,
\* new[i] = (1 - d)/N + d * (sum over j -> i of old[j] / outdegree(j)).
C19_IterationIsTheEquation == [][C19_Iteration]_vars

\* Engine B has made several passes on a corpus in which a document has two
\* in-neighbours
C19_Witness ==
    /\ MRIterated /\ mr.iteration >= 2
    /\ \E i \in Range(mr.doc_ids) : Cardinality(InNeighbours(mr, i)) >= 2

\* the rows of the pagerank table for the documents of a vector are the
\* vector's values, all tagged with the iteration
StoredAs(table, ranks, iteration) ==
    \A d \in DOMAIN ranks :
        /\ d \in DOMAIN table
        /\ table[d] = [pagerank |-> ranks[d], iteration |-> iteration]

\* a pass of a calculate() loop leaves that pass's vector in the table under
\* the number of the pass, and so does the pass after which calculate() returns
C12_PassStored ==
    /\ (mr.state = "calc" /\ mr.num_documents >= 1) =>
        /\ mr'.iteration = mr.iteration + 1
        /\ DOMAIN mr'.current_pagerank = Range(mr.doc_ids)
        /\ mr'.current_pagerank = calculate_pagerank_iteration(mr, mr.current_pagerank)
        /\ StoredAs(pagerank', mr'.current_pagerank, mr'.iteration)
        /\ mr'.state = "done" =>
            /\ mr'.pagerank = mr'.current_pagerank
            /\ StoredAs(pagerank', mr'.pagerank, mr'.iteration)
    /\ pg.state = "calc" =>
        /\ pg'.iteration = pg.iteration + 1
        /\ DOMAIN get_current_pagerank(pg') = Range(pg.doc_ids)
        /\ pg'.graph = run_superstep(pg.graph)
        /\ StoredAs(pagerank', get_current_pagerank(pg'), pg'.iteration)
        /\ pg'.state = "done" =>
            /\ pg'.result = get_current_pagerank(pg')
            /\ StoredAs(pagerank', pg'.result, pg'.iteration)

\* C12: in both engines, after the k-th iteration/superstep the stored score
\* of every document is that iteration's value with the tag k; when
\* calculate() returns, the stored scores are the returned vector and all
\* carry the same tag, the number of iterations performed.
C12_ScoresStoredEveryPass == [][C12_PassStored]_vars

\* both engines have returned after several passes, Engine A last: the table
\* holds Engine A's vector under Engine A's pass count, not Engine B's
C12_Witness ==
    /\ mr.state = "done" /\ mr.iteration >= 2
    /\ pg.state = "done" /\ pg.iteration >= 2
    /\ mr.iteration # pg.iteration
    /\ Len(documents) >= 2
    /\ StoredAs(pagerank, pg.result, pg.iteration)

----------------------------------------------------------------------------
(* Properties of the text helpers *)

\* s has t as a contiguous part
Contains(s, t) == \E pos \in 0..Len(s) : OccursAt(s, t, pos)

\* C8: tokenize is idempotent on its own output: for every text t and
\* stop-word set S, tokenize(' '.join(tokenize(t, S)), S) = tokenize(t, S),
\* and no token of the output is a member of S.
C8_TokenizeIdempotent ==
    call.op = "tokenize" =>
        /\ tokenize(Join(ret), call.stop_words) = ret
        /\ \A i \in DOMAIN ret : ret[i] \notin call.stop_words

\* C9: whenever some query term occurs, case-insensitively, in the text, the
\* snippet generate_snippet returns contains a complete case-insensitive
\* occurrence of a query term.
C9_SnippetContainsTerm ==
    (/\ call.op = "generate_snippet"
     /\ \E k \in DOMAIN call.query_terms :
            Contains(Lower(call.text), Lower(call.query_terms[k])))
    => \E k \in DOMAIN call.query_terms :
            Contains(Lower(ret), Lower(call.query_terms[k]))

----------------------------------------------------------------------------
(* Properties of the index and of the query engine *)

\* the (document, score) pairs of a result list
ScorePairs(results) == {<<results[i].doc_id, results[i].score>> : i \in DOMAIN results}

\* C2: on every corpus built through index_document and for every query,
\* search(query, 'term', x) and search(query, 'document', x) return the same
\* set of (document, score) pairs, for x both true and false: what a search
\* call returned has the pairs the other strategy returns at that moment.
C2_StrategiesAgree ==
    call.op = "search" =>
        ScorePairs(ret) =
            ScorePairs(search(se, documents, words, inverted_index, pagerank,
                              call.query,
                              IF call.method = "term" THEN "document" ELSE "term",
                              call.use_pagerank))

\* C3: after any sequence of index_document calls a posting (term, document)
\* exists if and only if the term occurs in the tokenized current content of
\* the document; no posting survives for a term the content no longer has.
C3_PostingsMatchContent ==
    /\ \A r \in inverted_index :
        /\ r.doc_id \in DOMAIN documents
        /\ words[r.word_id].word \in
                Range(tokenize(documents[r.doc_id].content, STOP_WORDS))
    /\ \A d \in DOMAIN documents :
        \A t \in Range(tokenize(documents[d].content, STOP_WORDS)) :
            \E r \in inverted_index : r.doc_id = d /\ words[r.word_id].word = t

\* every token of the text, before stop words are dropped, is in stop_words
AllStopWords(text, stop_words) ==
    \A t \in Range(Split(clean_text(text))) : t \in stop_words

\* C6: tokenize returns the empty sequence for empty input and for input
\* whose tokens are all stop words, and a search with such a query returns
\* the empty result list under both strategies and both authority settings.
C6_StopWordQueryIsEmpty ==
    /\ (call.op = "tokenize" /\ AllStopWords(call.text, call.stop_words)) =>
            ret = <<>>
    /\ (call.op = "search" /\ AllStopWords(call.query, STOP_WORDS)) =>
            /\ tokenize(call.query, STOP_WORDS) = <<>>
            /\ ret = <<>>

\* a query of one stop word was searched, with authority weighting, on an
\* index that has postings
C6_Witness ==
    /\ call.op = "search"
    /\ call.query # <<>>
    /\ AllStopWords(call.query, STOP_WORDS)
    /\ call.use_pagerank
    /\ inverted_index # {}
    /\ ret = <<>>

\* C11: index_document called a second time, right after a call with the
\* same URL, title, content and links, leaves the documents, the term
\* dictionary with its counters, the postings and the edges as the first
\* call left them.
C11_ReindexIsIdempotent ==
    call.op = "index_document" =>
        index_document(documents, words, inverted_index, links,
                       call.url, call.title, call.content, call.targets)
            = [documents |-> documents, words |-> words,
               inverted_index |-> inverted_index, links |-> links]

\* the page search has just returned, against the dictionary it sorted
C13_Page ==
    (call'.op = "search"
        /\ UNCHANGED <<documents, links, pagerank, words, inverted_index, mr, pg, indexed>>) =>
        LET final == final_scores(se', documents, words, inverted_index, pagerank,
                                  call'.query, call'.method, call'.use_pagerank)
            returned == {ret'[i].doc_id : i \in DOMAIN ret'}
        IN  /\ Len(ret') <= results_per_page
            /\ \A i \in DOMAIN ret' :
                    /\ ret'[i].doc_id \in DOMAIN final
                    /\ ret'[i].score = final[ret'[i].doc_id]
            /\ \A i, j \in DOMAIN ret' : i < j => ret'[i].score >= ret'[j].score
            /\ \A i \in DOMAIN ret' : \A d \in (DOMAIN final) \ returned :
                    ret'[i].score >= final[d]

\* C13: for every query and strategy, search returns at most results_per_page
\* results, listed in non-increasing order of final score, and the score of
\* every returned document is at least that of any candidate document that
\* was not returned.
C13_TopPageInOrder == [][C13_Page]_vars

\* a query with authority weighting after Engine B has stored its scores, on
\* a corpus with more candidates than a page holds: a full page is returned,
\* its scores are not all equal and not in the order of the document ids
C13_Witness ==
    /\ call.op = "search" /\ call.use_pagerank
    /\ mr.state = "done" /\ pagerank # <<>>
    /\ Cardinality(DOMAIN final_scores(se, documents, words, inverted_index,
                                        pagerank, call.query, call.method,
                                        call.use_pagerank)) > results_per_page
    /\ Len(ret) = results_per_page
    /\ \A i \in DOMAIN ret :
            ret[i].score = final_scores(se, documents, words, inverted_index,
                                        pagerank, call.query, call.method,
                                        call.use_pagerank)[ret[i].doc_id]
    /\ ret[1].score > ret[results_per_page].score
    /\ \E i \in 1..(results_per_page - 1) : ret[i].doc_id > ret[i + 1].doc_id

\* the stored edges whose target URL is the URL of a stored document
EdgesToStoredPages ==
    {l \in links : get_document_id(documents, l.target_url) # NULL}

\* an engine constructed in this step has, for every stored edge whose target
\* page is stored, the target among the out-neighbours of the source
C14_Built ==
    /\ (mr.state = "none" /\ mr'.state = "ready") =>
        \A l \in EdgesToStoredPages :
            get_document_id(documents, l.target_url) \in mr'.outgoing_links[l.source_doc_id]
    /\ (pg.state = "none" /\ pg'.state = "ready" /\ ~pg'.graph.is_none) =>
        \A l \in EdgesToStoredPages :
            LET idx == id_to_index(pg'.doc_ids)
            IN  idx[get_document_id(documents, l.target_url)]
                    \in pg'.graph.vertices[idx[l.source_doc_id]].outgoing_edges

\* C14: when a link from A to a URL u is indexed before any document with
\* URL u exists and a document with URL u is indexed later, the edge is
\* resolved retroactively and is counted by both engines built afterwards.
C14_LateTargetResolved ==
    /\ [](\A l \in EdgesToStoredPages :
            l.target_doc_id = get_document_id(documents, l.target_url))
    /\ [][C14_Built]_vars

\* C15: there is at most one edge per (source document, target URL); adding
\* a pair that is already stored leaves the stored edge unchanged.
C15_OneEdgePerPair ==
    /\ []LinksUnique(links)
    /\ [][\A l \in links : l \in links']_vars

\* page 1 was indexed again with its link to page 2, which was stored
\* without a target before page 2 was indexed: the stored edge is as it was
C15_Witness ==
    /\ call.op = "index_document" /\ call.url = Url(1)
    /\ \E k \in DOMAIN call.targets : call.targets[k] = Url(2)
    /\ get_document_id(documents, Url(2)) # NULL
    /\ [source_doc_id |-> 1, target_url |-> Url(2), target_doc_id |-> NULL] \in links

\* one message per edge of every vertex, carrying value / outdegree of the
\* value the vertex has in the graph
MessagesOfEveryVertex(graph) ==
    UNION {send_messages(i, graph.vertices[i]) : i \in DOMAIN graph.vertices}

\* a superstep delivers the messages of every vertex with outgoing edges
C16_Superstep ==
    pg.state = "calc" =>
        /\ collect_messages(pg.graph) = MessagesOfEveryVertex(pg.graph)
        /\ \A i \in DOMAIN pg.graph.vertices :
                pg'.graph.vertices[i].value
                    = new_value(pg.graph, MessagesOfEveryVertex(pg.graph), i)

\* C16: in every superstep of Engine A every vertex with outgoing edges
\* emits exactly one message per outgoing edge, carrying its value divided by
\* its outdegree, whether or not it was marked inactive in an earlier
\* superstep.
C16_EveryVertexSends == [][C16_Superstep]_vars

\* C17: whenever Engine A halts because no vertex is active, the vector it
\* returns is a fixed point of PR(i) = (1 - d)/N + d * (sum over every
\* in-neighbour j of PR(j) / outdegree(j)) up to 1e-10 per vertex.
C17_HaltedAtFixedPoint ==
    (pg.state = "done" /\ ~pg.graph.is_none /\ ~any_active(pg.graph)) =>
        \A i \in DOMAIN pg.graph.vertices :
            FLeq(FAbsDiff(pg.graph.vertices[i].value,
                          new_value(pg.graph, MessagesOfEveryVertex(pg.graph), i)),
                 ActiveThreshold)

\* the orders in which the vertices of a graph can be taken
VertexOrders(graph) ==
    {[k \in 1..graph.num_vertices |-> p[k - 1]] :
        p \in Permutations(DOMAIN graph.vertices)}

\* a superstep leaves the graph that its two loops give in whatever order
\* they take the vertices, and every message carries the value its sender
\* had when the superstep began
C18_Superstep ==
    pg.state = "calc" =>
        \A order \in VertexOrders(pg.graph) :
            /\ pg'.graph = run_superstep_in_order(pg.graph, order)
            /\ \A m \in send_phase(pg.graph, order, {}) :
                    m[3] = FDiv(pg.graph.vertices[m[1]].value,
                                Cardinality(pg.graph.vertices[m[1]].outgoing_edges))

\* C18: within one superstep every message is computed from the sender's
\* value at the start of the superstep, so the result of a superstep does
\* not depend on the order in which the vertices are processed.
C18_OrderIndependent == [][C18_Superstep]_vars

\* Engine A has run two or more supersteps on a graph in which a vertex with
\* an incoming edge also has an outgoing edge
C18_Witness ==
    /\ pg.state \in {"calc", "done"} /\ pg.iteration >= 2
    /\ \E i, j \in DOMAIN pg.graph.vertices :
        /\ i # j
        /\ j \in pg.graph.vertices[i].outgoing_edges
        /\ pg.graph.vertices[j].outgoing_edges # {}

\* the vector 1/N over the documents of an engine
Uniform(ids) == [d \in Range(ids) |-> FDiv(FOne, Len(ids))]

\* a step that takes calculate() of an engine to its loop leaves the loop
\* with 1/N for every document as the vector to start from
C20_Start ==
    /\ (mr.state # "calc" /\ mr'.state = "calc") =>
        mr'.current_pagerank = Uniform(mr.doc_ids)
    /\ (pg.state # "calc" /\ pg'.state = "calc") =>
        get_current_pagerank(pg') = Uniform(pg.doc_ids)

\* C20: every call of calculate() of either engine, a second call on the
\* same instance included, starts from the score 1/N for every document.
C20_StartsFromUniform == [][C20_Start]_vars

RECURSIVE TfIdfSum(_, _, _, _)
\* the sum, over the terms k, k + 1, ... of the query that occur in the
\* tokens of a document, of (occurrences / number of tokens) * idf
TfIdfSum(engine, query_terms, k, doc_tokens) ==
    IF k > Len(query_terms) THEN 0
    ELSE LET count == term_count(doc_tokens, query_terms[k])
             idf   == calculate_idf(engine, words, inverted_index, query_terms[k])
         IN  (IF count = 0 THEN 0 ELSE MicroRatio(idf, count, Len(doc_tokens)))
             + TfIdfSum(engine, query_terms, k + 1, doc_tokens)

\* C21: in both strategies, without authority weighting, the score of a
\* returned document is the sum over the query terms present in it of
\* (occurrences of the term in the document / tokens of the document) *
\* idf(term), and a document without tokens is never returned.
C21_ScoreIsTfIdf ==
    (call.op = "search" /\ ~call.use_pagerank) =>
        \A i \in DOMAIN ret :
            LET doc_tokens == tokenize(get_document_content(documents, ret[i].doc_id),
                                       STOP_WORDS)
            IN  /\ doc_tokens # <<>>
                /\ ret[i].score = TfIdfSum(se, tokenize(call.query, STOP_WORDS), 1,
                                           doc_tokens)

\* the page search has just returned with authority weighting, against the
\* scores the same query has without it
C22_Page ==
    (call'.op = "search" /\ call'.use_pagerank
        /\ UNCHANGED <<documents, links, pagerank, words, inverted_index, mr, pg, indexed>>) =>
        \A raw \in {final_scores(se', documents, words, inverted_index, pagerank,
                                 call'.query, call'.method, FALSE)},
           final \in {final_scores(se', documents, words, inverted_index, pagerank,
                                   call'.query, call'.method, TRUE)} :
            /\ DOMAIN final = DOMAIN raw
            /\ DOMAIN raw # {} =>
                \A highest \in {max_score(raw)} :
                    highest > 0 =>
                        /\ \A d \in DOMAIN raw :
                                final[d] =
                                    MicroMul(MicroDiv(raw[d], highest),
                                             MICRO + (IF d \in DOMAIN pagerank
                                                      THEN ToMicro(pagerank[d].pagerank)
                                                      ELSE MICRO))
                        /\ \A i \in DOMAIN ret' : ret'[i].score = final[ret'[i].doc_id]

\* C22: with authority weighting on and a non-empty candidate set whose
\* maximum raw score is positive, the final score of each candidate is
\* (raw score / maximum raw score) * (1 + stored authority score), 1.0
\* standing for a missing authority score; the candidates are those of the
\* same query without authority weighting.
C22_NormalizedTimesAuthority == [][C22_Page]_vars

\* a query with authority weighting returned documents of different scores
\* while the table held scores of Engine B, and the best of them has the full
\* normalized score times 1 + its authority
C22_Witness ==
    /\ call.op = "search" /\ call.use_pagerank
    /\ mr.state = "done" /\ pagerank # <<>>
    /\ Len(ret) >= 2
    /\ ret[1].score > ret[Len(ret)].score
    /\ \A i \in DOMAIN ret :
            ret[i].score = final_scores(se, documents, words, inverted_index,
                                        pagerank, call.query, call.method, TRUE)[ret[i].doc_id]
    /\ \E i \in DOMAIN ret :
            ret[i].score = MICRO + ToMicro(pagerank[ret[i].doc_id].pagerank)

\* no stored document has the term among its tokens
InNoDocument(term) ==
    \A d \in DOMAIN documents :
        term_count(tokenize(documents[d].content, STOP_WORDS), term) = 0

\* the query without its terms that no stored document contains
WithoutAbsentTerms(query) ==
    Join(SelectSeq(tokenize(query, STOP_WORDS), LAMBDA w : ~InNoDocument(w)))

\* C23: a query term that no indexed document contains contributes nothing:
\* what search returned has the (document, score) pairs of the query without
\* such terms, under both strategies, and nothing is returned for a query
\* made only of such terms.
C23_AbsentTermAddsNothing ==
    call.op = "search" =>
        /\ ScorePairs(ret) =
                ScorePairs(search(se, documents, words, inverted_index, pagerank,
                                  WithoutAbsentTerms(call.query), call.method,
                                  call.use_pagerank))
        /\ (\A k \in DOMAIN tokenize(call.query, STOP_WORDS) :
                InNoDocument(tokenize(call.query, STOP_WORDS)[k])) => ret = <<>>

\* one step of the program that does not construct a search engine, taken
\* while one exists
C24_Step ==
    (se.state = "ready" /\ call'.op # "SearchEngine") =>
        /\ se'.state = "ready"
        /\ se'.total_documents = se.total_documents
        /\ \A w \in DOMAIN se.idf_cache :
                /\ w \in DOMAIN se'.idf_cache
                /\ se'.idf_cache[w] = se.idf_cache[w]
                /\ calculate_idf(se', words', inverted_index', w) = se.idf_cache[w]
        /\ \A w \in (DOMAIN se'.idf_cache) \ (DOMAIN se.idf_cache) :
                \A doc_count \in {Cardinality(get_documents_for_word(words,
                                                        inverted_index, w))} :
                    se'.idf_cache[w] =
                        IF doc_count = 0 THEN 0
                        ELSE math_log(se.total_documents + 1, doc_count + 1) + MICRO

\* the construction of a search engine
C24_Construction ==
    call'.op = "SearchEngine" =>
        se'.total_documents = Len(documents) /\ DOMAIN se'.idf_cache = {}

\* C24: within one SearchEngine instance the IDF of a term is written to the
\* cache at most once: every later calculate_idf call returns the value
\* computed first, a cached 0.0 included, and N is the number of documents
\* read at construction, even when documents or postings were added between
\* the calls.
C24_IdfCachedOnce == [][C24_Step /\ C24_Construction]_vars

\* a search asked again for a term whose cached value is no longer the one
\* the index and the corpus give, after documents were added
C24_Witness ==
    /\ call.op = "search"
    /\ se.total_documents # Len(documents)
    /\ \E w \in Range(tokenize(call.query, STOP_WORDS)) :
            /\ se.idf_cache[w] = 0
            /\ fresh_idf(SEInit(documents), words, inverted_index, w) # 0
    /\ \E w \in Range(tokenize(call.query, STOP_WORDS)) :
            /\ se.idf_cache[w] # 0
            /\ fresh_idf(se, words, inverted_index, w) # se.idf_cache[w]

----------------------------------------------------------------------------
(* the parser alone: pages indexed and indexed again with other contents *)

\* contents: those of IndexContents, and one where a term comes back after
\* another
ReindexContents == IndexContents \cup {<<"y", " ", "x", " ", "y">>}

NextReindex ==
    \E url \in IndexUrls, content \in ReindexContents :
        IndexDocument(url, "t", content, <<>>)

SpecReindex == Init /\ [][NextReindex]_vars

\* the postings stored for a term and a document
PostingsOf(term, doc_id) ==
    {r \in inverted_index : r.doc_id = doc_id /\ words[r.word_id].word = term}

\* C25: for a term that occurs in a document both before and after
\* re-indexing there is exactly one posting for (term, document), and its
\* stored frequency and ordered zero-based position list are those computed
\* from the new content alone. Stated for every term of the current content
\* of every document, re-indexed or not.
C25_OnePostingFromNewContent ==
    \A d \in DOMAIN documents :
        \A tokens \in {tokenize(documents[d].content, STOP_WORDS)} :
            \A term \in Range(tokens) :
                PostingsOf(term, d) =
                    {[word_id |-> word_id_of(words, term), doc_id |-> d,
                      tf |-> term_count(tokens, term),
                      positions |-> SelectSeq([i \in DOMAIN tokens |->
                                        IF tokens[i] = term THEN i - 1 ELSE -1],
                                     LAMBDA q : q >= 0)]}

\* a page indexed with 'x y' and then with 'y x y': both terms were in the
\* page before, and 'y' now occurs twice, at positions 0 and 2
C25_Witness ==
    /\ indexed = 2
    /\ Len(documents) = 1
    /\ documents[1].content = <<"y", " ", "x", " ", "y">>
    /\ words = <<[word |-> <<"x">>, frequency |-> 2],
                 [word |-> <<"y">>, frequency |-> 2]>>
    /\ \E r \in inverted_index : r.tf = 2 /\ r.positions = <<0, 2>>

RECURSIVE Occurrences(_, _)
\* the occurrences of the term in the tokenized contents of documents 1..n
Occurrences(term, n) ==
    IF n = 0 THEN 0
    ELSE term_count(tokenize(documents[n].content, STOP_WORDS), term)
            + Occurrences(term, n - 1)

\* C26: after indexing any set of distinct documents the counter stored for
\* each term is the number of occurrences of the term in the tokenized
\* content of the whole corpus.
C26_CounterIsOccurrences ==
    indexed = Len(documents) =>
        \A w \in DOMAIN words :
            words[w].frequency = Occurrences(words[w].word, Len(documents))

----------------------------------------------------------------------------
(* the parser on a storage layer that fails on some words *)

\* the words add_word fails on during one index_document call
FailingSets == SUBSET {<<"x">>, <<"y">>}

FailureContents == {<<"x", " ", "y">>, <<"y", " ", "x", " ", "y">>}

FailureLinks == {<<>>, <<Url(2), Url(1)>>}

IndexDocumentFailing(url, title, content, targets, failing) ==
    /\ Idle
    /\ indexed < MaxIndexCalls
    /\ LET after == index_document_failing(documents, words, inverted_index,
                         links, url, title, content, targets, failing)
       IN  /\ documents' = after.documents
           /\ words' = after.words
           /\ inverted_index' = after.inverted_index
           /\ links' = after.links
    /\ indexed' = indexed + 1
    /\ call' = [op |-> "index_document", url |-> url, title |-> title,
                content |-> content, targets |-> targets, failing |-> failing]
    /\ ret' = NULL
    /\ UNCHANGED <<pagerank, mr, pg, se, wp>>

NextFailure ==
    \E url \in IndexUrls, content \in FailureContents, targets \in FailureLinks,
       failing \in FailingSets :
        IndexDocumentFailing(url, "t", content, targets, failing)

SpecFailure == Init /\ [][NextFailure]_vars

\* one index_document call: the page is stored, every term add_word did not
\* fail on has its posting from the content of the call, every link of the
\* call is stored, and the postings of the page for a term add_word failed on
\* are those from before the call (none when the page is new)
C27_Call ==
    indexed' = indexed + 1 =>
        \A doc_id \in {get_document_id(documents', call'.url)},
           tokens \in {tokenize(call'.content, STOP_WORDS)} :
            /\ doc_id # NULL
            /\ documents'[doc_id].content = call'.content
            /\ \A term \in Range(tokens) \ call'.failing :
                    {r \in inverted_index' :
                        r.doc_id = doc_id /\ words'[r.word_id].word = term} =
                    {[word_id |-> word_id_of(words', term), doc_id |-> doc_id,
                      tf |-> term_count(tokens, term),
                      positions |-> SelectSeq([i \in DOMAIN tokens |->
                                        IF tokens[i] = term THEN i - 1 ELSE -1],
                                     LAMBDA q : q >= 0)]}
            /\ \A i \in DOMAIN call'.targets :
                    \E l \in links' : /\ l.source_doc_id = doc_id
                                      /\ l.target_url = call'.targets[i]
            /\ \A term \in call'.failing :
                    {r \in inverted_index' :
                        r.doc_id = doc_id /\ words'[r.word_id].word = term} =
                    {r \in inverted_index :
                        r.doc_id = doc_id /\ words[r.word_id].word = term}

\* C27: when add_word returns -1 for one term during index_document, indexing
\* does not abort: the postings of every other distinct term and all links
\* are still stored, and no posting is stored for the failed term.
C27_FailedWordIsSkipped == [][C27_Call]_vars

\* a new page 'x y' with two links indexed while add_word failed on 'x', the
\* first term of the loop: 'y' alone is in the dictionary and has its posting
C27_Witness ==
    /\ call.op = "index_document"
    /\ call.failing = {<<"x">>}
    /\ call.content = <<"x", " ", "y">>
    /\ call.targets # <<>>
    /\ indexed = 1
    /\ words = <<[word |-> <<"y">>, frequency |-> 1]>>
    /\ inverted_index = {[word_id |-> 1, doc_id |-> 1, tf |-> 1, positions |-> <<1>>]}
    /\ Cardinality(links) = 2

\* the stored edges of a document whose target is resolved to a stored document
ResolvedEdges(doc_id) ==
    {l \in links : /\ l.source_doc_id = doc_id
                   /\ l.target_doc_id # NULL
                   /\ l.target_doc_id \in DOMAIN documents}

\* the construction of an engine: the outdegree of every document is the
\* number of its resolved edges, and what the document sends is its rank
\* divided by that number to the target of every resolved edge, nothing else
C28_Built ==
    /\ (mr.state = "none" /\ mr'.state = "ready") =>
        \A d \in DOMAIN documents :
            /\ Cardinality(mr'.outgoing_links[d]) = Cardinality(ResolvedEdges(d))
            /\ map_phase(mr', d, mr'.pagerank[d]) =
                    {<<d, l.target_doc_id,
                       FDiv(mr'.pagerank[d], Cardinality(ResolvedEdges(d)))>> :
                        l \in ResolvedEdges(d)}
    /\ (pg.state = "none" /\ pg'.state = "ready" /\ ~pg'.graph.is_none) =>
        \A d \in DOMAIN documents :
            \A idx \in {id_to_index(pg'.doc_ids)} :
                /\ Cardinality(pg'.graph.vertices[idx[d]].outgoing_edges) =
                        Cardinality(ResolvedEdges(d))
                /\ send_messages(idx[d],
                        [pg'.graph.vertices[idx[d]] EXCEPT !.value = FOne]) =
                        {<<idx[d], idx[l.target_doc_id],
                           FDiv(FOne, Cardinality(ResolvedEdges(d)))>> :
                            l \in ResolvedEdges(d)}

\* C28: in both engines the outdegree of a document is the number of its
\* stored edges whose target is resolved to a known document: an unresolved
\* edge neither receives a share nor reduces the share along resolved edges,
\* and a document whose edges are all unresolved sends nothing.
C28_OutdegreeCountsResolvedEdges == [][C28_Built]_vars

\* both engines built on a corpus where a document has a resolved and an
\* unresolved edge, and holds the resolved one alone
C28_Witness ==
    /\ mr.state = "ready"
    /\ pg.state = "ready"
    /\ ~pg.graph.is_none
    /\ \E d \in DOMAIN documents :
           /\ d \in DOMAIN mr.outgoing_links
           /\ d \in DOMAIN id_to_index(pg.doc_ids)
           /\ \E l \in links : l.source_doc_id = d /\ l.target_doc_id = NULL
           /\ Cardinality(ResolvedEdges(d)) = 1
           /\ Cardinality(mr.outgoing_links[d]) = 1
           /\ Cardinality(pg.graph.vertices[id_to_index(pg.doc_ids)[d]].outgoing_edges) = 1

----------------------------------------------------------------------------
(* the search engine called with any strategy name *)

\* the names search is called with: the two strategies and a name it does
\* not know
AnyMethods == {"term", "document", "bm25"}

NextMethods ==
    \/ SEConstruct
    \/ \E query \in PageQueries, method \in AnyMethods, use_pagerank \in BOOLEAN :
            Search(query, method, use_pagerank)
    \/ MRConstruct
    \/ MRCalculate
    \/ MRIteration

SpecMethods == InitPage /\ [][NextMethods]_vars

\* one call of search: the tables are those of before, the engine differs by
\* its IDF cache at most, and a name that is no strategy gives what 'term'
\* gives
C29_Search ==
    (call'.op = "search" /\ mr' = mr /\ pg' = pg) =>
        /\ UNCHANGED <<documents, words, inverted_index, links, pagerank>>
        /\ [se' EXCEPT !.idf_cache = se.idf_cache] = se
        /\ call'.method \notin {"term", "document"} =>
                ret' = search(se, documents, words, inverted_index, pagerank,
                              call'.query, "term", call'.use_pagerank)

\* C29: search, with either strategy or a strategy name it does not know
\* (handled as 'term'), with or without authority weighting, leaves the stored
\* documents, the term dictionary, the postings, the edges and the authority
\* scores unchanged; the only state it changes is the IDF cache of the engine.
C29_SearchReadsOnly == [][C29_Search]_vars

\* a weighted search under an unknown strategy name that returned documents
\* and cached the idf of its terms, on a corpus with stored authority scores
C29_Witness ==
    /\ call.op = "search"
    /\ call.method = "bm25"
    /\ call.use_pagerank
    /\ Len(ret) > 0
    /\ DOMAIN pagerank # {}
    /\ DOMAIN se.idf_cache = {<<"x">>, <<"y">>}

----------------------------------------------------------------------------
(* parser.py: the crawler *)

\* PARSER_CONFIG['max_pages']
DefaultMaxPages == 50

\* a URL as the caller of crawl writes it: the URL it stands for and the way
\* it is spelt (as normalized, or with a slash at the end)
RawUrl(i, spelling) == [url |-> Url(i), spelling |-> spelling]

\* normalize_url('', url): fragment and query dropped, the slash at the end
\* dropped, lower case; two spellings of a URL give the same string
normalize_url(raw) == raw.url

\* parse_page returning None
NoPage == [parsed |-> FALSE]

\* WebParser(db)
WPInit ==
    [state |-> "ready", visited_urls |-> {}, urls_to_visit |-> <<>>,
     max_pages |-> DefaultMaxPages, pages_parsed |-> 0, url |-> <<>>,
     result |-> NoPage, requests |-> <<>>, calls |-> 0, indexed_before |-> 0]

RECURSIVE add_start_urls(_, _, _)
\* add_start_urls(urls): what urls_to_visit becomes
add_start_urls(queue, visited, urls) ==
    IF urls = <<>> THEN queue
    ELSE add_start_urls(IF normalize_url(Head(urls)) \notin visited
                        THEN Append(queue, normalize_url(Head(urls)))
                        ELSE queue,
                        visited, Tail(urls))

RECURSIVE enqueue_links(_, _, _)
\* the loop over the links of a parsed page: what urls_to_visit becomes
enqueue_links(queue, visited, page_links) ==
    IF page_links = <<>> THEN queue
    ELSE enqueue_links(IF /\ Head(page_links) \notin visited
                          /\ Head(page_links) \notin Range(queue)
                       THEN Append(queue, Head(page_links))
                       ELSE queue,
                       visited, Tail(page_links))

\* the loop of crawl going on whatever the number of pages parsed
crawl_continues_unbounded(p) == p.urls_to_visit # <<>>

\* while self.urls_to_visit and pages_parsed < self.max_pages
crawl_continues(p) ==
    p.urls_to_visit # <<>> /\ p.pages_parsed < p.max_pages

\* parser = WebParser(db)
WPConstruct ==
    /\ wp.state = "none"
    /\ wp' = WPInit
    /\ call' = [op |-> "WebParser"]
    /\ ret' = NULL
    /\ UNCHANGED <<documents, links, pagerank, words, inverted_index, mr, pg,
                   se, indexed>>

\* crawl(start_urls, max_pages) up to the loop, on a new parser or on one
\* whose last crawl has returned
Crawl(start_urls, max_pages) ==
    /\ wp.state \in {"ready", "done"}
    /\ wp.calls < MaxCrawlCalls
    /\ wp' = [wp EXCEPT
                !.state = "crawling",
                !.calls = @ + 1,
                !.indexed_before = indexed,
                !.max_pages = IF max_pages # NULL THEN max_pages ELSE @,
                !.urls_to_visit = add_start_urls(@, wp.visited_urls, start_urls),
                !.pages_parsed = 0]
    /\ call' = [op |-> "crawl", start_urls |-> start_urls,
                max_pages |-> max_pages]
    /\ ret' = NULL
    /\ UNCHANGED <<documents, links, pagerank, words, inverted_index, mr, pg,
                   se, indexed>>

\* the head of the loop: the next URL is taken from the queue and skipped
\* when it was visited
CrawlPop ==
    /\ wp.state = "crawling"
    /\ crawl_continues(wp)
    /\ wp' = [wp EXCEPT
                !.urls_to_visit = Tail(@),
                !.url = Head(wp.urls_to_visit),
                !.state = IF Head(wp.urls_to_visit) \in wp.visited_urls
                          THEN "crawling" ELSE "fetch"]
    /\ UNCHANGED <<documents, links, pagerank, words, inverted_index, mr, pg,
                   se, indexed, call, ret>>

\* parse_page(url): the request is sent; the page is what the web gives, and
\* None stands for every failure
CrawlFetch(result) ==
    /\ wp.state = "fetch"
    /\ wp' = [wp EXCEPT !.requests = Append(@, wp.url),
                        !.result = result,
                        !.state = "parsed"]
    /\ UNCHANGED <<documents, links, pagerank, words, inverted_index, mr, pg,
                   se, indexed, call, ret>>

\* the rest of the loop body: a failed page is marked visited; a parsed page
\* is indexed, marked visited and counted, and its links are queued
CrawlStore ==
    /\ wp.state = "parsed"
    /\ IF ~wp.result.parsed
       THEN /\ wp' = [wp EXCEPT !.visited_urls = @ \cup {wp.url},
                                !.state = "crawling"]
            /\ UNCHANGED <<documents, words, inverted_index, links, indexed>>
       ELSE /\ LET after == index_document(documents, words, inverted_index,
                                 links, wp.url, wp.result.title,
                                 wp.result.content, wp.result.links)
               IN  /\ documents' = after.documents
                   /\ words' = after.words
                   /\ inverted_index' = after.inverted_index
                   /\ links' = after.links
            /\ indexed' = indexed + 1
            /\ wp' = [wp EXCEPT
                        !.visited_urls = @ \cup {wp.url},
                        !.pages_parsed = @ + 1,
                        !.urls_to_visit =
                            enqueue_links(@, wp.visited_urls \cup {wp.url},
                                          wp.result.links),
                        !.state = "crawling"]
    /\ UNCHANGED <<pagerank, mr, pg, se, call, ret>>

\* the loop condition is false: crawl returns
CrawlEnd ==
    /\ wp.state = "crawling"
    /\ ~crawl_continues(wp)
    /\ wp' = [wp EXCEPT !.state = "done"]
    /\ UNCHANGED <<documents, links, pagerank, words, inverted_index, mr, pg,
                   se, indexed, call, ret>>

\* what extract_links returns: the normalized links of the page without
\* duplicates, in any order; the last one has a URL no crawl starts from
PageLinks ==
    {<<>>, <<Url(1)>>, <<Url(2)>>, <<Url(1), Url(2)>>, <<Url(2), Url(1)>>,
     <<Url(3), Url(1)>>}

\* what parse_page returns
PageResults ==
    {NoPage} \cup {[parsed |-> TRUE, title |-> "t", content |-> content,
                    links |-> page_links] :
                        content \in CrawlContents, page_links \in PageLinks}

\* the start URLs of a crawl: none, one, one spelt in two ways, two
StartUrlLists ==
    {<<>>, <<RawUrl(1, "plain")>>,
     <<RawUrl(1, "plain"), RawUrl(1, "slash")>>,
     <<RawUrl(2, "plain"), RawUrl(1, "plain")>>}

\* the max_pages argument: not given (None, which NULL stands for, is as
\* false as 0), or a number of pages
CrawlLimits == {NULL} \cup (1..MaxUrls)

NextWeb ==
    \/ WPConstruct
    \/ \E start_urls \in StartUrlLists, max_pages \in CrawlLimits :
            Crawl(start_urls, max_pages)
    \/ CrawlPop
    \/ \E result \in PageResults : CrawlFetch(result)
    \/ CrawlStore
    \/ CrawlEnd

SpecWeb == Init /\ [][NextWeb]_vars

\* what holds at every moment of a crawl and after it: no URL was requested
\* twice, the visited URLs were all requested, the pages parsed and indexed
\* since crawl was called are at most max_pages, and crawl has returned only
\* with an empty queue or max_pages pages parsed
C30_Crawling ==
    wp.state \notin {"none", "ready"} =>
        /\ \A i, j \in DOMAIN wp.requests :
                i # j => wp.requests[i] # wp.requests[j]
        /\ wp.visited_urls \subseteq Range(wp.requests)
        /\ wp.pages_parsed <= wp.max_pages
        /\ indexed - wp.indexed_before = wp.pages_parsed
        /\ wp.state = "done" =>
                wp.urls_to_visit = <<>> \/ wp.pages_parsed = wp.max_pages

\* at the head of the loop with an empty queue or max_pages pages parsed,
\* the next step is the return of crawl: nothing more is requested or stored
C30_Ends ==
    (/\ wp.state = "crawling"
     /\ (wp.urls_to_visit = <<>> \/ wp.pages_parsed >= wp.max_pages)) =>
        /\ wp'.state = "done"
        /\ wp'.requests = wp.requests
        /\ UNCHANGED <<documents, words, inverted_index, links, indexed>>

\* C30: during WebParser.crawl no URL is fetched more than once, a URL is
\* added to the visited set only after its fetch was attempted, at most
\* max_pages pages are parsed and indexed, and the crawl ends as soon as the
\* queue is empty or max_pages pages have been indexed.
C30_CrawlIsBounded == [](C30_Crawling) /\ [][C30_Ends]_vars

\* a crawl of at most one page that returned with a URL left in the queue,
\* after a request that failed and one that gave a page
C30_Witness ==
    /\ wp.state = "done"
    /\ wp.max_pages = 1
    /\ wp.pages_parsed = 1
    /\ wp.urls_to_visit # <<>>
    /\ Len(wp.requests) = 2
    /\ Cardinality(wp.visited_urls) = 2
    /\ Len(documents) = 1

====
